---- MODULE Spec2Model ----
(***************************************************************************)
(* Model of the Go Thunderstorm collector (src/go/collector.go): one       *)
(* walker goroutine (Collect / collectPath), Threads upload workers        *)
(* (StartWorkers / uploadToThunderstorm), the unbuffered filesToUpload     *)
(* channel, the dedup cache, the throttle gate, the statistics counters    *)
(* and Stop().                                                             *)
(*                                                                         *)
(* Strings that the code inspects character by character (paths, globs,    *)
(* extensions, the Retry-After header) are sequences of one-character      *)
(* strings; file contents and magic headers are sequences of bytes.        *)
(* Times are integers (seconds).                                           *)
(***************************************************************************)
EXTENDS Integers, Sequences, FiniteSets, TLC

\* ------------------------------------------------------------------ bounds
\* Largest number of worker goroutines (CollectorConfig.Threads) explored.
MaxThreads == 2
\* Largest number of POSTs per run that the server/transport answers with
\* something other than a clean 200.
MaxFaults == 4
\* Last instant of the model clock.
MaxTime == 3

\* ------------------------------------------------------- program constants
maxRetries == 3
\* seconds
baseRetryDelay == 4
\* The code's ceiling is 10000 insertions; the model scales it down so that
\* a run of a handful of files crosses it.
maxHashCacheSize == 2
\* Cooldown (seconds) when Retry-After is missing or unparseable.
defaultRetryTime == 30
\* time.Time{} : the initial lastScanTime, far before every model instant.
zeroTime == -1000

RECURSIVE Pow2(_)
\* 1<<n  (time.Duration(1<<info.retries))
Pow2(n) == IF n = 0 THEN 1 ELSE 2 * Pow2(n - 1)

IsPrefix(p, s) == Len(p) <= Len(s) /\ SubSeq(s, 1, Len(p)) = p

\* strings.HasSuffix
HasSuffix(s, suf) ==
    Len(suf) <= Len(s) /\ SubSeq(s, Len(s) - Len(suf) + 1, Len(s)) = suf

RECURSIVE JoinPath(_)
\* filepath.Join of the components with "/"
JoinPath(comps) ==
    IF Len(comps) = 0 THEN <<>>
    ELSE IF Len(comps) = 1 THEN comps[1]
    ELSE comps[1] \o <<"/">> \o JoinPath(Tail(comps))

RECURSIVE SplitPath(_)
\* the "/"-separated components of a flat path or pattern
SplitPath(s) ==
    IF \A i \in 1..Len(s) : s[i] # "/" THEN <<s>>
    ELSE LET k == CHOOSE i \in 1..Len(s) :
                     s[i] = "/" /\ \A j \in 1..(i - 1) : s[j] # "/"
         IN <<SubSeq(s, 1, k - 1)>> \o SplitPath(SubSeq(s, k + 1, Len(s)))

RECURSIVE MatchComponent(_, _)
\* One path component against one pattern component: "?" is any single
\* character, "*" any run of characters (neither crosses a "/").
MatchComponent(pat, name) ==
    IF Len(pat) = 0 THEN Len(name) = 0
    ELSE IF pat[1] = "*"
         THEN \E k \in 0..Len(name) :
                 MatchComponent(Tail(pat), SubSeq(name, k + 1, Len(name)))
    ELSE IF Len(name) = 0 THEN FALSE
    ELSE (pat[1] = "?" \/ pat[1] = name[1])
         /\ MatchComponent(Tail(pat), Tail(name))

RECURSIVE MatchComponents(_, _)
\* "**" as a whole component matches zero or more path components.
MatchComponents(pats, comps) ==
    IF Len(pats) = 0 THEN Len(comps) = 0
    ELSE IF pats[1] = <<"*", "*">>
         THEN \E k \in 0..Len(comps) :
                 MatchComponents(Tail(pats), SubSeq(comps, k + 1, Len(comps)))
    ELSE IF Len(comps) = 0 THEN FALSE
    ELSE MatchComponent(pats[1], comps[1])
         /\ MatchComponents(Tail(pats), Tail(comps))

\* doublestar.Match(glob, path)
Match(glob, path) == MatchComponents(SplitPath(glob), SplitPath(path))

IsDigit(c) == c \in {"0", "1", "2", "3", "4", "5", "6", "7", "8", "9"}

DigitVal(c) ==
    CASE c = "0" -> 0 [] c = "1" -> 1 [] c = "2" -> 2 [] c = "3" -> 3
      [] c = "4" -> 4 [] c = "5" -> 5 [] c = "6" -> 6 [] c = "7" -> 7
      [] c = "8" -> 8 [] c = "9" -> 9

RECURSIVE DigitsVal(_, _)
DigitsVal(s, acc) ==
    IF Len(s) = 0 THEN acc ELSE DigitsVal(Tail(s), 10 * acc + DigitVal(s[1]))

\* strconv.Atoi: [ok, val]; an optional sign followed by at least one digit.
Atoi(s) ==
    LET body == IF Len(s) > 0 /\ s[1] \in {"+", "-"} THEN Tail(s) ELSE s
        neg  == Len(s) > 0 /\ s[1] = "-"
    IN IF Len(body) > 0 /\ \A i \in 1..Len(body) : IsDigit(body[i])
       THEN [ok |-> TRUE,
             val |-> IF neg THEN 0 - DigitsVal(body, 0) ELSE DigitsVal(body, 0)]
       ELSE [ok |-> FALSE, val |-> 0]

\* ------------------------------------------------------------- file system
\* A fixed directory forest standing for the host's file system.  Entry ids
\* are the positions in Entries; the entries of one root are contiguous and
\* in the order filepath.Walk visits them (lexical pre-order).
\*   comps    path components (the path is their filepath.Join)
\*   dir      os.FileInfo.IsDir()
\*   regular  os.FileInfo.Mode().IsRegular()
\*   times    getTimes(info): <<mtime, ctime>> on linux
\*   content  the bytes of the file (Size() is their number)
\*   openable os.Open succeeds
\*   err      the walk callback is called with err # nil for the entry
\*   statfs   syscall.Statfs(path, &buf): [err, type], the type named by
\*            its magic constant
\*   hashErr  io.Copy of the file into the hash fails (after its first byte)
D(c)    == [comps |-> c, dir |-> TRUE, regular |-> FALSE, times |-> <<9, 9>>,
            content |-> <<>>, openable |-> TRUE, err |-> FALSE,
            statfs |-> [err |-> FALSE, type |-> "EXT4_SUPER_MAGIC"],
            hashErr |-> FALSE]
F(c, b) == [comps |-> c, dir |-> FALSE, regular |-> TRUE, times |-> <<9, 9>>,
            content |-> b, openable |-> TRUE, err |-> FALSE,
            statfs |-> [err |-> FALSE, type |-> "EXT4_SUPER_MAGIC"],
            hashErr |-> FALSE]

Entries ==
    << \* root "t"
       D(<< <<"t">> >>),                                              \* 1
       F(<< <<"t">>, <<"a", ".", "x">> >>, <<1, 2>>),                 \* 2
       F(<< <<"t">>, <<"b", ".", "j">> >>, <<7, 7, 7>>),              \* 3
       D(<< <<"t">>, <<"s", "1">> >>),                                \* 4
       [F(<< <<"t">>, <<"s", "1">>, <<"c", ".", "j">> >>, <<1, 2>>)   \* 5
           EXCEPT !.hashErr = TRUE],
       F(<< <<"t">>, <<"s", "1">>, <<"d", ".", "x">> >>, <<3>>),      \* 6
       D(<< <<"t">>, <<"s", "2">> >>),                                \* 7
       F(<< <<"t">>, <<"s", "2">>, <<"e", ".", "n">> >>, <<7, 7, 7>>),\* 8
       \* root "d": two files with the same bytes and a short one
       D(<< <<"d">> >>),                                              \* 9
       F(<< <<"d">>, <<"1">> >>, <<5, 5, 5>>),                        \* 10
       F(<< <<"d">>, <<"2">> >>, <<5, 5, 5>>),                        \* 11
       F(<< <<"d">>, <<"3">> >>, <<6>>),                              \* 12
       \* root "m": one entry per filter outcome
       D(<< <<"m">> >>),                                              \* 13
       F(<< <<"m">>, <<"a", ".", "x">> >>, <<77, 90, 9>>),            \* 14
       F(<< <<"m">>, <<"b">> >>, <<77, 90, 1>>),                      \* 15
       F(<< <<"m">>, <<"c">> >>, <<8, 8>>),                           \* 16
       [F(<< <<"m">>, <<"d">> >>, <<77, 90, 0, 2>>)                   \* 17
           EXCEPT !.regular = FALSE, !.times = <<1, 2>>],
       [F(<< <<"m">>, <<"e">> >>, <<77, 90, 0, 1>>) EXCEPT !.times = <<1, 2>>], \* 18
       F(<< <<"m">>, <<"f">> >>, <<77, 90, 0, 0>>),                   \* 19
       [F(<< <<"m">>, <<"g">> >>, <<77, 90, 2>>) EXCEPT !.openable = FALSE], \* 20
       [F(<< <<"m">>, <<"h">> >>, <<>>) EXCEPT !.err = TRUE],         \* 21
       [F(<< <<"m">>, <<"i">> >>, <<77, 90, 4>>) EXCEPT !.times = <<5, 1>>], \* 22
       [F(<< <<"m">>, <<"j">> >>, <<77, 90, 3>>) EXCEPT !.times = <<1, 9>>], \* 23
       F(<< <<"m">>, <<"k">> >>, <<77, 90>>),                         \* 24
       [D(<< <<"m">>, <<"p">> >>)                                     \* 25
           EXCEPT !.statfs.type = "NFS_SUPER_MAGIC"],
       F(<< <<"m">>, <<"p">>, <<"x">> >>, <<77, 90, 5>>),             \* 26
       \* root "n": a root path that does not exist (Lstat fails)
       [D(<< <<"n">> >>) EXCEPT !.err = TRUE],                        \* 27
       \* root "r": a single short file
       D(<< <<"r">> >>),                                              \* 28
       F(<< <<"r">>, <<"1">> >>, <<4>>),                              \* 29
       \* root "v": directories on a network file system, on a pseudo file
       \* system and on one whose type cannot be read, a file in each
       D(<< <<"v">> >>),                                              \* 30
       [D(<< <<"v">>, <<"n">> >>)                                     \* 31
           EXCEPT !.statfs.type = "CEPH_SUPER_MAGIC"],
       [F(<< <<"v">>, <<"n">>, <<"1">> >>, <<1>>)                     \* 32
           EXCEPT !.statfs.type = "CEPH_SUPER_MAGIC"],
       [D(<< <<"v">>, <<"p">> >>)                                     \* 33
           EXCEPT !.statfs.type = "PROC_SUPER_MAGIC"],
       [F(<< <<"v">>, <<"p">>, <<"2">> >>, <<2>>)                     \* 34
           EXCEPT !.statfs.type = "PROC_SUPER_MAGIC"],
       [D(<< <<"v">>, <<"u">> >>) EXCEPT !.statfs.err = TRUE],        \* 35
       [F(<< <<"v">>, <<"u">>, <<"3">> >>, <<3>>)                     \* 36
           EXCEPT !.statfs.type = "SYSFS_MAGIC"],
       [F(<< <<"v">>, <<"w">> >>, <<4>>)                              \* 37
           EXCEPT !.statfs.type = "NFS_SUPER_MAGIC"]
    >>

Ids == 1..Len(Entries)

\* the path the walk callback receives
Path(e) == JoinPath(Entries[e].comps)
\* os.FileInfo.Size()
Size(e) == Len(Entries[e].content)

\* e lies below directory d
Under(e, d) ==
    /\ e # d
    /\ Entries[d].dir
    /\ IsPrefix(Entries[d].comps, Entries[e].comps)

\* the roots: the entries with a single path component
Roots == {r \in Ids : Len(Entries[r].comps) = 1}

\* for every entry, the root whose tree holds it
RootOfEntry ==
    [e \in Ids |-> CHOOSE r \in Roots : Entries[r].comps[1] = Entries[e].comps[1]]

RootOf(e) == RootOfEntry[e]

\* for every root, the last entry of its tree
LastOfRoot ==
    [r \in Roots |-> CHOOSE e \in Ids :
                        /\ RootOfEntry[e] = r
                        /\ \A x \in Ids : RootOfEntry[x] = r => x <= e]

LastOf(r) == LastOfRoot[r]

\* Where filepath.Walk goes after entry e of root r: the next entry in
\* pre-order, or past the whole subtree of e when skip (filepath.SkipDir, or a
\* directory that could not be read); 0 when the tree is exhausted.
NextEntry(r, e, skip) ==
    LET cand == {x \in Ids : x > e /\ x <= LastOf(r)
                              /\ (skip => ~Under(x, e))}
    IN IF cand = {} THEN 0
       ELSE CHOOSE x \in cand : \A y \in cand : x <= y

\* ----------------------------------------------------------- configuration
\* the entry of the root path with the given name
RootNamed(name) == CHOOSE e \in 1..Len(Entries) : Entries[e].comps = << name >>

RootT == RootNamed(<<"t">>)
RootD == RootNamed(<<"d">>)
RootM == RootNamed(<<"m">>)
RootN == RootNamed(<<"n">>)
RootR == RootNamed(<<"r">>)
RootV == RootNamed(<<"v">>)

\* CollectorConfig with the fields the engine reads; the zero value of every
\* field except the three every run sets.
BaseConfig ==
    [RootPaths        |-> <<>>,
     FileExtensions   |-> <<>>,
     ExcludeGlobs     |-> <<>>,
     MagicHeaders     |-> <<>>,
     ThresholdTime    |-> 0,
     MaxFileSize      |-> 0,
     MinCacheFileSize |-> 100,
     MinUploadPeriod  |-> 0,
     AllFilesystems   |-> FALSE,
     DryRun           |-> FALSE,
     Threads          |-> 1]

\* exclude globs  **/s1   **/*.j   */b.?   t/s1
GlobConfig ==
    [BaseConfig EXCEPT
        !.RootPaths = <<RootT>>,
        !.ExcludeGlobs = << <<"*", "*", "/", "s", "1">>,
                            <<"*", "*", "/", "*", ".", "j">>,
                            <<"*", "/", "b", ".", "?">>,
                            <<"t", "/", "s", "1">> >>]

\* extension .x, magic headers 4d5a and 504b03, max size 3, threshold 5
FilterConfig ==
    [BaseConfig EXCEPT
        !.RootPaths = <<RootM>>,
        !.FileExtensions = << <<".", "x">> >>,
        !.MagicHeaders = << <<77, 90>>, <<80, 75, 3>> >>,
        !.ThresholdTime = 5,
        !.MaxFileSize = 3]

\* files above 2 bytes are hashed
DedupConfig ==
    [BaseConfig EXCEPT !.RootPaths = <<RootD>>, !.MinCacheFileSize = 2]

\* every file is hashed; two trees that hold more distinct contents than
\* the cache ceiling and the number of workers together
ResetConfig ==
    [BaseConfig EXCEPT !.RootPaths = <<RootT, RootD>>, !.MinCacheFileSize = 0]

\* a rate limit of one upload every 2 seconds; MinCacheFileSize is the size
\* of the two files with the same bytes
ThrottleConfig ==
    [BaseConfig EXCEPT !.RootPaths = <<RootD>>, !.MinUploadPeriod = 2,
                       !.MinCacheFileSize = 3]

\* a root that cannot be walked, followed by one that can
MissingRootConfig ==
    [BaseConfig EXCEPT !.RootPaths = <<RootN, RootD>>, !.MinCacheFileSize = 2]

\* one file that is not hashed: the run in which the retries are followed
\* to their ceiling
RetryConfig ==
    [BaseConfig EXCEPT !.RootPaths = <<RootR>>]

\* directories on pseudo and network file systems, pruned
FilesystemConfig ==
    [BaseConfig EXCEPT !.RootPaths = <<RootV>>]

\* the same tree with AllFilesystems set
AllFilesystemsConfig ==
    [BaseConfig EXCEPT !.RootPaths = <<RootV>>, !.AllFilesystems = TRUE]

\* The runs explored: a configuration and the number of POSTs of the run
\* that may be answered with something other than a clean 200.
Scenarios ==
    {[cfg |-> GlobConfig, faults |-> 1],
     [cfg |-> FilterConfig, faults |-> 1],
     [cfg |-> DedupConfig, faults |-> 2],
     [cfg |-> RetryConfig, faults |-> MaxFaults],
     [cfg |-> ResetConfig, faults |-> 0],
     [cfg |-> ThrottleConfig, faults |-> 1],
     [cfg |-> MissingRootConfig, faults |-> 0],
     [cfg |-> FilesystemConfig, faults |-> 0],
     [cfg |-> AllFilesystemsConfig, faults |-> 0]}

\* the values of the Retry-After header: absent, "2", not a number
RetryAfterValues == {<<>>, <<"2">>, <<"x">>}

\* ------------------------------------------------------------------- state
VARIABLES
    cfg,                \* Collector.CollectorConfig
    budget,             \* faulty answers the server/transport may still give
    now,                \* time.Now(), seconds
    walker,             \* the Collect goroutine: [pc, root, entry]
    phase,              \* "run" | "closed" (close(filesToUpload)) | "stopped"
    pc,                 \* per worker: where it is in uploadToThunderstorm
    info,               \* per worker: its infoWithPath [file, retries]
    cacheSize,          \* per worker: the local cacheSize of the dedup check
    ref,                \* per worker: the *sync.Map it read from c.fileHashCache
    wake,               \* per worker: when its throttle sleep ends
    Statistics,         \* CollectionStatistics
    maps,               \* every sync.Map allocated so far: the hashes it holds
    fileHashCache,      \* c.fileHashCache: which of maps the collector points to
    fileHashCacheCount, \* the atomic insertion counter
    lastScanTime,       \* the throttle clock
    hist                \* per entry: what happened to it (observation only)

vars == <<cfg, budget, now, walker, phase, pc, info, cacheSize, ref, wake,
          Statistics, maps, fileHashCache, fileHashCacheCount, lastScanTime,
          hist>>

Workers == 1..cfg.Threads

Counters == {"filesDiscovered", "skippedTooBig", "skippedWrongType",
             "skippedTooOld", "skippedIrregular", "skippedDuplicate",
             "skippedDirectories", "skippedExcluded",
             "uploadedFiles", "uploadErrors", "fileErrors"}

\* what the model remembers about an entry
NoHist ==
    [visits   |-> 0,      \* walk callbacks that processed it
     steps    |-> <<>>,   \* what the walk callback ran for it, in order
     queued   |-> 0,      \* sends on filesToUpload
     received |-> 0,      \* receives from filesToUpload
     calls    |-> 0,      \* calls of uploadToThunderstorm
     opened   |-> 0,      \* successful os.Open
     magic    |-> 0,      \* magic-header reads (ReadAt)
     passed   |-> FALSE,  \* its first call got past the content filter
     gate     |-> 0,      \* entries into throttle()
     reqs     |-> <<>>,   \* the multipart bodies of its POSTs, in order
     pos      |-> <<>>,   \* the cursor of its file at each of its POSTs
     resp     |-> <<>>,   \* the answers to its POSTs, in order
     hdrs     |-> <<>>,   \* the Retry-After headers of its 503 answers
     sleeps   |-> <<>>,   \* the retry / 503 sleeps of its worker, seconds
     cnt      |-> <<>>,   \* the counters incremented on its behalf
     done     |-> FALSE]  \* its pipeline reached a terminal state

Init ==
    /\ \E s \in Scenarios, n \in 1..MaxThreads, dry \in BOOLEAN :
          /\ cfg = [s.cfg EXCEPT !.Threads = n, !.DryRun = dry]
          /\ budget = IF dry THEN 0 ELSE s.faults
    /\ now = 0
    /\ walker = [pc |-> "root", root |-> 1, entry |-> 0]
    /\ phase = "run"
    /\ pc = [w \in Workers |-> "idle"]
    /\ info = [w \in Workers |-> [file |-> 0, retries |-> 0]]
    /\ cacheSize = [w \in Workers |-> 0]
    /\ ref = [w \in Workers |-> 1]
    /\ wake = [w \in Workers |-> 0]
    /\ Statistics = [c \in Counters |-> 0]
    /\ maps = <<{}>>
    /\ fileHashCache = 1
    /\ fileHashCacheCount = 0
    /\ lastScanTime = zeroTime
    /\ hist = [e \in Ids |-> NoHist]

\* ------------------------------------------------------- statistics helpers
RECURSIVE AddAll(_, _)
\* atomic.AddInt64(&c.Statistics.<counter>, 1) for each counter of incs
AddAll(stats, incs) ==
    IF Len(incs) = 0 THEN stats
    ELSE AddAll([stats EXCEPT ![incs[1]] = @ + 1], Tail(incs))

\* hist after the counters incs were incremented on behalf of entry e
Noted(h, e, incs) == [h EXCEPT ![e].cnt = @ \o incs]

\* ------------------------------------------------------------------ filters
\* the globs of the configuration that match entry e
MatchingGlobs(e) ==
    {i \in 1..Len(cfg.ExcludeGlobs) : Match(cfg.ExcludeGlobs[i], Path(e))}

\* a variant of the exclude-glob loop that does not return at the first
\* matching glob: it counts the entry once for every glob that matches
ExcludeLoopWithoutReturn(e) ==
    [i \in 1..Cardinality(MatchingGlobs(e)) |->
        IF Entries[e].dir THEN "skippedDirectories" ELSE "skippedExcluded"]

\* the exclude-glob loop of the walk callback: the counters it increments
ExcludeLoop(e) ==
    IF MatchingGlobs(e) # {}
    THEN IF Entries[e].dir THEN <<"skippedDirectories">> ELSE <<"skippedExcluded">>
    ELSE <<>>

\* a variant of the quick check that tests the size before the age
QuickCheckSizeFirst(e) ==
    LET isTooOld == \A i \in 1..Len(Entries[e].times) :
                        ~(Entries[e].times[i] > cfg.ThresholdTime)
    IN IF ~Entries[e].regular THEN "skippedIrregular"
       ELSE IF cfg.MaxFileSize > 0 /\ cfg.MaxFileSize < Size(e) THEN "skippedTooBig"
       ELSE IF isTooOld THEN "skippedTooOld"
       ELSE ""

\* a variant of the quick check whose size test is MaxFileSize <= Size()
QuickCheckSkippingAtMaximum(e) ==
    LET isTooOld == \A i \in 1..Len(Entries[e].times) :
                        ~(Entries[e].times[i] > cfg.ThresholdTime)
    IN IF ~Entries[e].regular THEN "skippedIrregular"
       ELSE IF isTooOld THEN "skippedTooOld"
       ELSE IF cfg.MaxFileSize > 0 /\ cfg.MaxFileSize <= Size(e) THEN "skippedTooBig"
       ELSE ""

\* "" when the file passes, else the counter of the reason
isFileExcludedDueToMetadataQuick(e) ==
    LET isTooOld == \A i \in 1..Len(Entries[e].times) :
                        ~(Entries[e].times[i] > cfg.ThresholdTime)
    IN IF ~Entries[e].regular THEN "skippedIrregular"
       ELSE IF isTooOld THEN "skippedTooOld"
       ELSE IF cfg.MaxFileSize > 0 /\ cfg.MaxFileSize < Size(e) THEN "skippedTooBig"
       ELSE ""

\* the worker's repetition of the metadata check
isFileExcludedDueToMetadata(e) ==
    LET isTooOld == \A i \in 1..Len(Entries[e].times) :
                        ~(Entries[e].times[i] > cfg.ThresholdTime)
    IN IF ~Entries[e].regular THEN "skippedIrregular"
       ELSE IF isTooOld THEN "skippedTooOld"
       ELSE IF cfg.MaxFileSize > 0 /\ cfg.MaxFileSize < Size(e) THEN "skippedTooBig"
       ELSE ""

\* the filesystem types SkipFilesystem lists as pseudo filesystems
PseudoFilesystems ==
    {"BDEVFS_MAGIC", "BINFMTFS_MAGIC", "CGROUP_SUPER_MAGIC", "DEBUGFS_MAGIC",
     "EFIVARFS_MAGIC", "FUTEXFS_SUPER_MAGIC", "HUGETLBFS_MAGIC", "PIPEFS_MAGIC",
     "SELINUX_MAGIC", "SMACK_MAGIC", "SYSFS_MAGIC", "PROC_SUPER_MAGIC"}

\* the filesystem types SkipFilesystem lists as network filesystems
NetworkFilesystems ==
    {"AFS_FS_MAGIC", "OPENAFS_FS_MAGIC", "CEPH_SUPER_MAGIC",
     "SMB1_MAGIC_NUMBER", "SMB2_MAGIC_NUMBER", "SMB3_MAGIC_NUMBER",
     "CODA_SUPER_MAGIC", "NCP_SUPER_MAGIC", "NFS_SUPER_MAGIC",
     "OCFS2_SUPER_MAGIC", "SMB_SUPER_MAGIC", "V9FS_MAGIC",
     "VMBLOCK_SUPER_MAGIC", "XENFS_SUPER_MAGIC", "GPFS_MAGIC"}

\* a variant of SkipFilesystem that treats a failed Statfs like a pseudo
\* filesystem
SkipFilesystemOnStatfsError(e) ==
    LET buf == Entries[e].statfs
    IN buf.err \/ buf.type \in PseudoFilesystems \cup NetworkFilesystems

\* SkipFilesystem(path): false when Statfs fails, else whether the type is
\* one of the pseudo or network filesystems
SkipFilesystem(e) ==
    LET buf == Entries[e].statfs
    IN IF buf.err THEN FALSE
       ELSE buf.type \in PseudoFilesystems \cup NetworkFilesystems

\* a variant of the walk callback that counts a file in filesDiscovered
\* before it runs the exclude-glob loop
WalkFnDiscoveringFirst(e) ==
    IF Entries[e].err
    THEN [inc |-> <<>>, skip |-> TRUE, send |-> FALSE, steps |-> <<>>]
    ELSE IF ExcludeLoop(e) # <<>>
    THEN [inc |-> (IF Entries[e].dir THEN <<>> ELSE <<"filesDiscovered">>)
                  \o ExcludeLoop(e),
          skip |-> Entries[e].dir, send |-> FALSE,
          steps |-> (IF Entries[e].dir THEN <<>> ELSE <<"discovered">>)
                    \o <<"glob">>]
    ELSE IF ~Entries[e].dir
    THEN LET r == isFileExcludedDueToMetadataQuick(e)
         IN [inc  |-> <<"filesDiscovered">> \o (IF r = "" THEN <<>> ELSE <<r>>),
             skip |-> FALSE,
             send |-> r = "",
             steps |-> <<"discovered", "glob", "metadata">>]
    ELSE IF ~cfg.AllFilesystems /\ SkipFilesystem(e)
    THEN [inc |-> <<>>, skip |-> TRUE, send |-> FALSE,
          steps |-> <<"glob", "filesystem">>]
    ELSE [inc |-> <<>>, skip |-> FALSE, send |-> FALSE,
          steps |-> <<"glob">> \o (IF cfg.AllFilesystems THEN <<>>
                                    ELSE <<"filesystem">>)]

\* The callback of filepath.Walk on entry e:
\*   inc   the counters it increments, in order
\*   skip  it returns filepath.SkipDir (or the entry cannot be descended)
\*   send  it sends the entry on filesToUpload
\*   steps what it ran, in order: "glob" the exclude-glob loop, "discovered"
\*         the filesDiscovered increment, "metadata" the quick metadata
\*         check, "filesystem" the call of SkipFilesystem
WalkFn(e) ==
    IF Entries[e].err
    THEN [inc |-> <<>>, skip |-> TRUE, send |-> FALSE, steps |-> <<>>]
    ELSE IF ExcludeLoop(e) # <<>>
    THEN [inc |-> ExcludeLoop(e), skip |-> Entries[e].dir, send |-> FALSE,
          steps |-> <<"glob">>]
    ELSE IF ~Entries[e].dir
    THEN LET r == isFileExcludedDueToMetadataQuick(e)
         IN [inc  |-> <<"filesDiscovered">> \o (IF r = "" THEN <<>> ELSE <<r>>),
             skip |-> FALSE,
             send |-> r = "",
             steps |-> <<"glob", "discovered", "metadata">>]
    ELSE IF ~cfg.AllFilesystems /\ SkipFilesystem(e)
    THEN [inc |-> <<>>, skip |-> TRUE, send |-> FALSE,
          steps |-> <<"glob", "filesystem">>]
    ELSE [inc |-> <<>>, skip |-> FALSE, send |-> FALSE,
          steps |-> <<"glob">> \o (IF cfg.AllFilesystems THEN <<>>
                                    ELSE <<"filesystem">>)]

\* NewCollector: the length of the longest configured magic header
magicHeaderExtractionLength ==
    LET lens == {Len(cfg.MagicHeaders[i]) : i \in 1..Len(cfg.MagicHeaders)}
    IN IF lens = {} THEN 0 ELSE CHOOSE n \in lens : \A k \in lens : k <= n

\* f.ReadAt(buf, 0) with len(buf) = n: the bytes read, and io.EOF (err) when
\* the file ends before the buffer is full.
ReadAt(content, n) ==
    [data |-> SubSeq(content, 1, IF Len(content) < n THEN Len(content) ELSE n),
     err  |-> Len(content) < n]

extensionWanted(e) ==
    \E i \in 1..Len(cfg.FileExtensions) : HasSuffix(Path(e), cfg.FileExtensions[i])

\* a variant in which the magic header is read whenever headers are
\* configured, whether an extension matched or not
MagicHeaderReadAlways(e) == Len(cfg.MagicHeaders) > 0

\* the magic-header read happens
magicHeaderRead(e) == Len(cfg.MagicHeaders) > 0 /\ ~extensionWanted(e)

magicHeaderWanted(e) ==
    /\ magicHeaderRead(e)
    /\ LET r == ReadAt(Entries[e].content, magicHeaderExtractionLength)
       IN /\ ~r.err
          /\ \E i \in 1..Len(cfg.MagicHeaders) : IsPrefix(cfg.MagicHeaders[i], r.data)

\* the extension / magic-header part of isFileExcludedDueToContent
isWrongType(e) ==
    /\ ~extensionWanted(e)
    /\ ~magicHeaderWanted(e)
    /\ (Len(cfg.MagicHeaders) > 0 \/ Len(cfg.FileExtensions) > 0)

\* the file is large enough for the dedup check: its hash is computed
hashAttempted(e) == Size(e) > cfg.MinCacheFileSize

\* io.Copy(hashCalculator, f): the bytes read from f, and whether it failed
HashCopy(e) ==
    [n   |-> IF Entries[e].hashErr THEN (IF Size(e) > 0 THEN 1 ELSE 0) ELSE Size(e),
     err |-> Entries[e].hashErr]

\* the file is hashed for the dedup check: the hash was computed and
\* LoadOrStore is reached
isHashed(e) == hashAttempted(e) /\ ~HashCopy(e).err

\* sha256 of the content: equal contents give equal hashes, and the model
\* takes different contents to give different hashes.
fileHash(e) == <<"sha256", Entries[e].content>>

\* os.Getwd(): the working directory of the process
Getwd == <<"/", "w">>

\* filepath.Abs: an absolute path is kept, a relative one is joined to the
\* working directory
Abs(path) ==
    IF Len(path) > 0 /\ path[1] = "/" THEN path
    ELSE Getwd \o <<"/">> \o path

\* a variant of the content filter without the deferred f.Seek: hashing
\* leaves the file cursor at the end of the file
CursorLeftAtEnd(e) == IF isHashed(e) THEN Size(e) ELSE 0

\* a variant of the content filter that resets the file cursor only when
\* the hash was computed
CursorResetOnSuccessOnly(e) ==
    IF hashAttempted(e) /\ HashCopy(e).err THEN HashCopy(e).n ELSE 0

\* The cursor of f when isFileExcludedDueToContent has returned: ReadAt does
\* not move it, io.Copy into the hash moves it by the bytes it read and the
\* deferred f.Seek(0, io.SeekStart) back to the start, whether or not
\* io.Copy failed.
CursorAfterContentFilter(e) ==
    LET afterReadAt == 0
        afterCopy   == IF hashAttempted(e) THEN afterReadAt + HashCopy(e).n
                       ELSE afterReadAt
    IN IF hashAttempted(e) THEN 0 ELSE afterCopy

\* getFileContentAsFormData: the parts written to the pipe that is the body
\* of the POST; io.Copy(fw, f) reads f from its cursor to the end
getFileContentAsFormData(e) ==
    << [field    |-> "file",
        filename |-> Abs(Path(e)),
        body     |-> SubSeq(Entries[e].content,
                            CursorAfterContentFilter(e) + 1, Size(e))] >>

\* a variant of the backoff that sleeps before info.retries is incremented
RetryDelayBeforeIncrement(retries) == baseRetryDelay * Pow2(retries - 1)

\* time.Sleep(baseRetryDelay * time.Duration(1<<info.retries)), seconds
RetryDelay(retries) == baseRetryDelay * Pow2(retries)

\* the cooldown after a 503 with Retry-After header h, seconds
RetryTime(h) == IF Atoi(h).ok THEN Atoi(h).val ELSE defaultRetryTime

\* ------------------------------------------------------------------- walker
\* what the walk callback returns for entry e: nil, also when it is called
\* with an error, or filepath.SkipDir
CallbackReturn(e) ==
    IF Entries[e].err THEN "nil"
    ELSE IF WalkFn(e).skip THEN "SkipDir"
    ELSE "nil"

\* the error filepath.Walk(root) returns: an Lstat or ReadDir error is handed
\* to the callback, a return value of the callback other than nil and
\* SkipDir ends the walk and is returned
WalkError(r) ==
    \E e \in Ids :
        /\ e = r \/ Under(e, r)
        /\ CallbackReturn(e) \notin {"nil", "SkipDir"}

\* the lines collectPath(r) has logged when it returns
collectPathLog(r) ==
    <<"Walking through">>
    \o (IF WalkError(r) THEN <<"Could not walk path">> ELSE <<>>)
    \o <<"Finished walking through">>

\* the walker moves on from entry e of the current root
Advance(e, skip) ==
    LET r == cfg.RootPaths[walker.root]
        n == NextEntry(r, e, skip)
    IN IF n = 0
       THEN [pc |-> "root", root |-> walker.root + 1, entry |-> 0]
       ELSE [pc |-> "visit", root |-> walker.root, entry |-> n]

\* Collect: the loop over RootPaths; collectPath starts filepath.Walk on the
\* root, and Collect returns after the last root.
StartRoot ==
    /\ walker.pc = "root"
    /\ walker' = IF walker.root > Len(cfg.RootPaths)
                 THEN [walker EXCEPT !.pc = "collected"]
                 ELSE [walker EXCEPT !.pc = "visit",
                                     !.entry = cfg.RootPaths[walker.root]]
    /\ UNCHANGED <<cfg, budget, now, phase, pc, info, cacheSize, ref, wake,
                   Statistics, maps, fileHashCache, fileHashCacheCount,
                   lastScanTime, hist>>

\* a variant of the walk callback with a buffered channel: the send returns
\* at once and the walk goes on while the candidate waits for a worker
VisitBufferedSend ==
    /\ walker.pc = "visit"
    /\ \E e \in {walker.entry} : \E r \in {WalkFn(e)} :
          /\ Statistics' = AddAll(Statistics, r.inc)
          /\ hist' = [Noted(hist, e, r.inc) EXCEPT
                         ![e].visits = @ + 1,
                         ![e].steps = @ \o r.steps,
                         ![e].done = ~r.send /\ ~Entries[e].dir /\ ~Entries[e].err]
          /\ walker' = Advance(e, r.skip)
    /\ UNCHANGED <<cfg, budget, now, phase, pc, info, cacheSize, ref, wake,
                   maps, fileHashCache, fileHashCacheCount, lastScanTime>>

\* One call of the walk callback.  An accepted file leaves the walker blocked
\* in the send on the unbuffered channel.
Visit ==
    /\ walker.pc = "visit"
    /\ \E e \in {walker.entry} : \E r \in {WalkFn(e)} :
          /\ Statistics' = AddAll(Statistics, r.inc)
          /\ hist' = [Noted(hist, e, r.inc) EXCEPT
                         ![e].visits = @ + 1,
                         ![e].steps = @ \o r.steps,
                         ![e].done = ~r.send /\ ~Entries[e].dir /\ ~Entries[e].err]
          /\ walker' = IF r.send THEN [walker EXCEPT !.pc = "send"]
                       ELSE Advance(e, r.skip)
    /\ UNCHANGED <<cfg, budget, now, phase, pc, info, cacheSize, ref, wake,
                   maps, fileHashCache, fileHashCacheCount, lastScanTime>>

\* a variant of the receive in which a worker that is still processing a
\* file takes the next one (a worker goroutine per received file)
ReceiveWhileBusy(w) == pc[w] # "exited"

\* a variant of the receive in which the pool takes no candidate while one
\* of its workers is in the retry loop of a file
CanReceiveUnlessRetrying(w) ==
    /\ pc[w] = "idle"
    /\ \A v \in 1..(w - 1) : pc[v] # "idle"
    /\ \A v \in Workers : info[v].retries = 0

\* A worker may take the next value of  for info := range c.filesToUpload
\* when it is blocked in the range.  The workers run the same code and own
\* nothing between files, so of the idle workers the model lets the first
\* one receive: every other choice is this one with the workers renamed.
CanReceive(w) == pc[w] = "idle" /\ \A v \in 1..(w - 1) : pc[v] # "idle"

\* c.filesToUpload <- infoWithPath{info, path, 0} meets a worker's receive
Receive(w) ==
    /\ walker.pc = "send"
    /\ phase = "run"
    /\ CanReceive(w)
    /\ info' = [info EXCEPT ![w] = [file |-> walker.entry, retries |-> 0]]
    /\ pc' = [pc EXCEPT ![w] = "call"]
    /\ hist' = [hist EXCEPT ![walker.entry].queued = @ + 1,
                            ![walker.entry].received = @ + 1]
    /\ walker' = Advance(walker.entry, FALSE)
    /\ UNCHANGED <<cfg, budget, now, phase, cacheSize, ref, wake, Statistics,
                   maps, fileHashCache, fileHashCacheCount, lastScanTime>>

\* Stop: close(c.filesToUpload)
Close ==
    /\ walker.pc = "collected"
    /\ phase = "run"
    /\ phase' = "closed"
    /\ walker' = [walker EXCEPT !.pc = "wait"]
    /\ UNCHANGED <<cfg, budget, now, pc, info, cacheSize, ref, wake, Statistics,
                   maps, fileHashCache, fileHashCacheCount, lastScanTime, hist>>

\* a variant in which closing the channel ends a worker wherever it is,
\* the file it holds left unfinished
ExitAbandoningFile(w) ==
    /\ pc[w] # "exited"
    /\ phase = "closed"
    /\ pc' = [pc EXCEPT ![w] = "exited"]
    /\ UNCHANGED <<cfg, budget, now, walker, phase, info, cacheSize, ref, wake,
                   Statistics, maps, fileHashCache, fileHashCacheCount,
                   lastScanTime, hist>>

\* a worker's range loop ends on the closed channel: c.workerGroup.Done()
Exit(w) ==
    /\ pc[w] = "idle"
    /\ phase = "closed"
    /\ pc' = [pc EXCEPT ![w] = "exited"]
    /\ UNCHANGED <<cfg, budget, now, walker, phase, info, cacheSize, ref, wake,
                   Statistics, maps, fileHashCache, fileHashCacheCount,
                   lastScanTime, hist>>

\* a variant of Stop that reports the statistics after closing the channel
\* without waiting for the workers
JoinedWithoutWait ==
    /\ walker.pc = "wait"
    /\ phase' = "stopped"
    /\ walker' = [walker EXCEPT !.pc = "done"]
    /\ UNCHANGED <<cfg, budget, now, pc, info, cacheSize, ref, wake, Statistics,
                   maps, fileHashCache, fileHashCacheCount, lastScanTime, hist>>

\* Stop: c.workerGroup.Wait() returns and the statistics are reported
Joined ==
    /\ walker.pc = "wait"
    /\ \A w \in Workers : pc[w] = "exited"
    /\ phase' = "stopped"
    /\ walker' = [walker EXCEPT !.pc = "done"]
    /\ UNCHANGED <<cfg, budget, now, pc, info, cacheSize, ref, wake, Statistics,
                   maps, fileHashCache, fileHashCacheCount, lastScanTime, hist>>

\* ------------------------------------------------------------------ workers
\* uploadToThunderstorm returns false: the redo loop ends and the worker
\* goes back to the range over the channel.
Finished(w) ==
    /\ pc' = [pc EXCEPT ![w] = "idle"]
    /\ info' = [info EXCEPT ![w] = [file |-> 0, retries |-> 0]]

\* throttle() is called: with a rate limit the worker enters its loop,
\* without one throttle() returns at once and the POST is next
AfterGate == IF cfg.MinUploadPeriod > 0 THEN "throttle" ELSE "post"

\* a variant of the step after the content filter without the dry-run
\* return: the file goes on to throttle() and the POST in every mode
AcceptedIgnoringDryRun(w, h) ==
    LET e == info[w].file
        hp == [h EXCEPT ![e].passed = @ \/ h[e].calls = 1]
    IN /\ hist' = [hp EXCEPT ![e].gate = @ + 1]
       /\ pc' = [pc EXCEPT ![w] = AfterGate]
       /\ UNCHANGED <<Statistics, info>>

\* where a file that is not excluded by its content goes next: the dry-run
\* return, or throttle()
Accepted(w, h) ==
    LET e == info[w].file
        hp == [h EXCEPT ![e].passed = @ \/ h[e].calls = 1]
    IN IF cfg.DryRun
       THEN /\ Statistics' = AddAll(Statistics, <<"uploadedFiles">>)
            /\ hist' = [Noted(hp, e, <<"uploadedFiles">>) EXCEPT ![e].done = TRUE]
            /\ Finished(w)
       ELSE /\ hist' = [hp EXCEPT ![e].gate = @ + 1]
            /\ pc' = [pc EXCEPT ![w] = AfterGate]
            /\ UNCHANGED <<Statistics, info>>

\* isFileExcludedDueToContent: extension and magic header; a file to be
\* hashed reads c.fileHashCache next
Content(w, h0) ==
    LET e == info[w].file
        h == [h0 EXCEPT ![e].magic = @ + (IF magicHeaderRead(e) THEN 1 ELSE 0)]
    IN IF isWrongType(e)
       THEN /\ Statistics' = AddAll(Statistics, <<"skippedWrongType">>)
            /\ hist' = [Noted(h, e, <<"skippedWrongType">>) EXCEPT ![e].done = TRUE]
            /\ Finished(w)
            /\ UNCHANGED ref
       ELSE IF isHashed(e)
       THEN /\ ref' = [ref EXCEPT ![w] = fileHashCache]
            /\ hist' = h
            /\ pc' = [pc EXCEPT ![w] = "store"]
            /\ UNCHANGED <<Statistics, info>>
       ELSE /\ Accepted(w, h)
            /\ UNCHANGED ref

\* a variant of the first part of uploadToThunderstorm that does not
\* return when os.Open fails
CallIgnoringOpenError(w) ==
    /\ pc[w] = "call"
    /\ LET e == info[w].file
           r == isFileExcludedDueToMetadata(e)
       IN IF r # ""
          THEN /\ Statistics' = AddAll(Statistics, <<r>>)
               /\ hist' = [Noted(hist, e, <<r>>) EXCEPT ![e].calls = @ + 1,
                                                        ![e].done = TRUE]
               /\ Finished(w)
               /\ UNCHANGED ref
          ELSE Content(w, [hist EXCEPT ![e].calls = @ + 1, ![e].opened = @ + 1])
    /\ UNCHANGED <<cfg, budget, now, walker, phase, cacheSize, wake, maps,
                   fileHashCache, fileHashCacheCount, lastScanTime>>

\* a variant of the first part of uploadToThunderstorm in which a failing
\* os.Open ends the worker goroutine
CallAbortingOnOpenError(w) ==
    /\ pc[w] = "call"
    /\ LET e == info[w].file
           r == isFileExcludedDueToMetadata(e)
       IN IF r # ""
          THEN /\ Statistics' = AddAll(Statistics, <<r>>)
               /\ hist' = [Noted(hist, e, <<r>>) EXCEPT ![e].calls = @ + 1,
                                                        ![e].done = TRUE]
               /\ Finished(w)
               /\ UNCHANGED ref
          ELSE IF ~Entries[e].openable
          THEN /\ Statistics' = AddAll(Statistics, <<"fileErrors">>)
               /\ hist' = [Noted(hist, e, <<"fileErrors">>) EXCEPT
                              ![e].calls = @ + 1, ![e].done = TRUE]
               /\ pc' = [pc EXCEPT ![w] = "exited"]
               /\ info' = [info EXCEPT ![w] = [file |-> 0, retries |-> 0]]
               /\ UNCHANGED ref
          ELSE Content(w, [hist EXCEPT ![e].calls = @ + 1, ![e].opened = @ + 1])
    /\ UNCHANGED <<cfg, budget, now, walker, phase, cacheSize, wake, maps,
                   fileHashCache, fileHashCacheCount, lastScanTime>>

\* uploadToThunderstorm up to its first access to state shared between the
\* workers: the metadata check, os.Open, and the content filter up to the
\* read of c.fileHashCache.  These steps touch the file and atomic counters
\* only, so they are taken as one.
Call(w) ==
    /\ pc[w] = "call"
    /\ LET e == info[w].file
           r == isFileExcludedDueToMetadata(e)
       IN IF r # ""
          THEN /\ Statistics' = AddAll(Statistics, <<r>>)
               /\ hist' = [Noted(hist, e, <<r>>) EXCEPT ![e].calls = @ + 1,
                                                        ![e].done = TRUE]
               /\ Finished(w)
               /\ UNCHANGED ref
          ELSE IF ~Entries[e].openable
          THEN /\ Statistics' = AddAll(Statistics, <<"fileErrors">>)
               /\ hist' = [Noted(hist, e, <<"fileErrors">>) EXCEPT
                              ![e].calls = @ + 1, ![e].done = TRUE]
               /\ Finished(w)
               /\ UNCHANGED ref
          ELSE Content(w, [hist EXCEPT ![e].calls = @ + 1, ![e].opened = @ + 1])
    /\ UNCHANGED <<cfg, budget, now, walker, phase, cacheSize, wake, maps,
                   fileHashCache, fileHashCacheCount, lastScanTime>>

\* LoadOrStore(fileHash, true) on the map the worker read
Store(w) ==
    /\ pc[w] = "store"
    /\ LET e == info[w].file
       IN IF fileHash(e) \in maps[ref[w]]
          THEN /\ Statistics' = AddAll(Statistics, <<"skippedDuplicate">>)
               /\ hist' = [Noted(hist, e, <<"skippedDuplicate">>) EXCEPT ![e].done = TRUE]
               /\ Finished(w)
               /\ UNCHANGED maps
          ELSE /\ maps' = [maps EXCEPT ![ref[w]] = @ \cup {fileHash(e)}]
               /\ pc' = [pc EXCEPT ![w] = "count"]
               /\ UNCHANGED <<Statistics, info, hist>>
    /\ UNCHANGED <<cfg, budget, now, walker, phase, cacheSize, ref, wake,
                   fileHashCache, fileHashCacheCount, lastScanTime>>

\* cacheSize := atomic.AddInt64(&c.fileHashCacheCount, 1)
Count(w) ==
    /\ pc[w] = "count"
    /\ fileHashCacheCount' = fileHashCacheCount + 1
    /\ cacheSize' = [cacheSize EXCEPT ![w] = fileHashCacheCount + 1]
    /\ IF fileHashCacheCount + 1 > maxHashCacheSize
       THEN /\ pc' = [pc EXCEPT ![w] = "cas"]
            /\ UNCHANGED <<Statistics, info, hist>>
       ELSE Accepted(w, hist)
    /\ UNCHANGED <<cfg, budget, now, walker, phase, ref, wake, maps,
                   fileHashCache, lastScanTime>>

\* a variant of the reset without the compare-and-swap: every worker whose
\* insertion count is above the ceiling replaces the cache
CasAlwaysSucceeding(w) ==
    /\ pc[w] = "cas"
    /\ pc' = [pc EXCEPT ![w] = "swap"]
    /\ UNCHANGED <<cfg, budget, now, walker, phase, info, cacheSize, ref, wake,
                   Statistics, maps, fileHashCache, fileHashCacheCount,
                   lastScanTime, hist>>

\* atomic.CompareAndSwapInt64(&c.fileHashCacheCount, cacheSize, 0)
Cas(w) ==
    /\ pc[w] = "cas"
    /\ IF fileHashCacheCount = cacheSize[w]
       THEN /\ fileHashCacheCount' = 0
            /\ pc' = [pc EXCEPT ![w] = "swap"]
            /\ UNCHANGED <<Statistics, info, hist>>
       ELSE /\ Accepted(w, hist)
            /\ UNCHANGED fileHashCacheCount
    /\ UNCHANGED <<cfg, budget, now, walker, phase, cacheSize, ref, wake, maps,
                   fileHashCache, lastScanTime>>

\* c.fileHashCache = &sync.Map{}
Swap(w) ==
    /\ pc[w] = "swap"
    /\ maps' = Append(maps, {})
    /\ fileHashCache' = Len(maps) + 1
    /\ Accepted(w, hist)
    /\ UNCHANGED <<cfg, budget, now, walker, phase, cacheSize, ref, wake,
                   fileHashCacheCount, lastScanTime>>

\* a variant of throttle() that unlocks the mutex after the sleep: while a
\* worker sleeps no other worker gets into the critical section
ThrottleHoldingMutexInSleep(w) ==
    /\ pc[w] = "throttle"
    /\ \A v \in Workers : pc[v] # "sleep"
    /\ LET timePassed == now - lastScanTime
       IN IF timePassed >= cfg.MinUploadPeriod
          THEN /\ lastScanTime' = now
               /\ pc' = [pc EXCEPT ![w] = "post"]
               /\ UNCHANGED wake
          ELSE /\ wake' = [wake EXCEPT ![w] = now + (cfg.MinUploadPeriod - timePassed)]
               /\ pc' = [pc EXCEPT ![w] = "sleep"]
               /\ UNCHANGED lastScanTime
    /\ UNCHANGED <<cfg, budget, now, walker, phase, info, cacheSize, ref,
                   Statistics, maps, fileHashCache, fileHashCacheCount, hist>>

\* throttle() with a rate limit (MinUploadPeriod > 0): one pass of its loop.
\* The mutex-protected section reads the clock and either takes the slot or
\* computes the time to sleep.
Throttle(w) ==
    /\ pc[w] = "throttle"
    /\ LET timePassed == now - lastScanTime
       IN IF timePassed >= cfg.MinUploadPeriod
          THEN /\ lastScanTime' = now
               /\ pc' = [pc EXCEPT ![w] = "post"]
               /\ UNCHANGED wake
          ELSE /\ wake' = [wake EXCEPT ![w] = now + (cfg.MinUploadPeriod - timePassed)]
               /\ pc' = [pc EXCEPT ![w] = "sleep"]
               /\ UNCHANGED lastScanTime
    /\ UNCHANGED <<cfg, budget, now, walker, phase, info, cacheSize, ref,
                   Statistics, maps, fileHashCache, fileHashCacheCount, hist>>

\* a variant of throttle() without the loop: after its sleep the worker
\* takes the slot without looking at c.lastScanTime again
WakeAndPass(w) ==
    /\ pc[w] = "sleep"
    /\ now >= wake[w]
    /\ pc' = [pc EXCEPT ![w] = "post"]
    /\ lastScanTime' = now
    /\ UNCHANGED <<cfg, budget, now, walker, phase, info, cacheSize, ref, wake,
                   Statistics, maps, fileHashCache, fileHashCacheCount, hist>>

\* time.Sleep(timeUntilNextUpload) is over
Wake(w) ==
    /\ pc[w] = "sleep"
    /\ now >= wake[w]
    /\ pc' = [pc EXCEPT ![w] = "throttle"]
    /\ UNCHANGED <<cfg, budget, now, walker, phase, info, cacheSize, ref, wake,
                   Statistics, maps, fileHashCache, fileHashCacheCount,
                   lastScanTime, hist>>

\* the clock advances (followed only while a rate limit is configured).
\* MaxTime bounds the time that passes while no worker waits for it: a
\* time.Sleep always returns, so the clock goes on for a sleeping worker.
Tick ==
    /\ cfg.MinUploadPeriod > 0
    /\ phase # "stopped"
    /\ \/ now < MaxTime
       \/ \E w \in Workers : pc[w] = "sleep" /\ wake[w] > now
    /\ now' = now + 1
    /\ UNCHANGED <<cfg, budget, walker, phase, pc, info, cacheSize, ref, wake,
                   Statistics, maps, fileHashCache, fileHashCacheCount,
                   lastScanTime, hist>>

\* The outcome of http.Post and of reading the response:
\*   [err |-> TRUE]                      no response (transport error)
\*   [err |-> FALSE, status, retryAfter, bodyErr]
Answers ==
    {[err |-> TRUE, status |-> 0, retryAfter |-> <<>>, bodyErr |-> FALSE]}
    \cup {[err |-> FALSE, status |-> 503, retryAfter |-> h, bodyErr |-> FALSE] :
              h \in RetryAfterValues}
    \cup {[err |-> FALSE, status |-> 200, retryAfter |-> <<>>, bodyErr |-> b] :
              b \in BOOLEAN}
    \cup {[err |-> FALSE, status |-> 500, retryAfter |-> <<>>, bodyErr |-> FALSE]}

CleanOK(a) == ~a.err /\ a.status = 200 /\ ~a.bodyErr

\* how the history names an answer
AnswerName(a) ==
    IF a.err THEN "err"
    ELSE IF a.status = 503 THEN "503"
    ELSE IF a.bodyErr THEN "bodyerr"
    ELSE IF a.status = 200 THEN "200" ELSE "500"

\* a variant of the classification that returns on a non-200 status without
\* counting the file anywhere
ClassifyDroppingNon200(a, retries) ==
    IF a.err
    THEN IF retries < maxRetries
         THEN [redo |-> TRUE, retries |-> retries + 1,
               sleep |-> <<RetryDelay(retries + 1)>>, inc |-> <<>>]
         ELSE [redo |-> FALSE, retries |-> retries,
               sleep |-> <<>>, inc |-> <<"uploadErrors">>]
    ELSE IF a.status = 503
    THEN [redo |-> TRUE, retries |-> retries,
          sleep |-> <<RetryTime(a.retryAfter)>>, inc |-> <<>>]
    ELSE IF a.bodyErr
    THEN [redo |-> FALSE, retries |-> retries, sleep |-> <<>>, inc |-> <<"uploadErrors">>]
    ELSE IF a.status # 200
    THEN [redo |-> FALSE, retries |-> retries, sleep |-> <<>>, inc |-> <<>>]
    ELSE [redo |-> FALSE, retries |-> retries, sleep |-> <<>>, inc |-> <<"uploadedFiles">>]

\* a variant of the classification that handles a non-200 status like a
\* transport error: retry with backoff while retries < maxRetries
ClassifyRetryingNon200(a, retries) ==
    IF a.err \/ (a.status # 200 /\ a.status # 503 /\ ~a.bodyErr)
    THEN IF retries < maxRetries
         THEN [redo |-> TRUE, retries |-> retries + 1,
               sleep |-> <<RetryDelay(retries + 1)>>, inc |-> <<>>]
         ELSE [redo |-> FALSE, retries |-> retries,
               sleep |-> <<>>, inc |-> <<"uploadErrors">>]
    ELSE IF a.status = 503
    THEN [redo |-> TRUE, retries |-> retries,
          sleep |-> <<RetryTime(a.retryAfter)>>, inc |-> <<>>]
    ELSE IF a.bodyErr
    THEN [redo |-> FALSE, retries |-> retries, sleep |-> <<>>, inc |-> <<"uploadErrors">>]
    ELSE [redo |-> FALSE, retries |-> retries, sleep |-> <<>>, inc |-> <<"uploadedFiles">>]

\* a variant of the classification whose retry test is retries <= maxRetries
ClassifyRetryingOnceMore(a, retries) ==
    IF a.err
    THEN IF retries <= maxRetries
         THEN [redo |-> TRUE, retries |-> retries + 1,
               sleep |-> <<RetryDelay(retries + 1)>>, inc |-> <<>>]
         ELSE [redo |-> FALSE, retries |-> retries,
               sleep |-> <<>>, inc |-> <<"uploadErrors">>]
    ELSE IF a.status = 503
    THEN [redo |-> TRUE, retries |-> retries,
          sleep |-> <<RetryTime(a.retryAfter)>>, inc |-> <<>>]
    ELSE IF a.bodyErr
    THEN [redo |-> FALSE, retries |-> retries, sleep |-> <<>>, inc |-> <<"uploadErrors">>]
    ELSE IF a.status # 200
    THEN [redo |-> FALSE, retries |-> retries, sleep |-> <<>>, inc |-> <<"uploadErrors">>]
    ELSE [redo |-> FALSE, retries |-> retries, sleep |-> <<>>, inc |-> <<"uploadedFiles">>]

\* What uploadToThunderstorm does with the answer a when the file has made
\* `retries` retries:
\*   redo  it returns true     retries  the new info.retries
\*   sleep the time.Sleep calls, seconds     inc  the counters incremented
Classify(a, retries) ==
    IF a.err
    THEN IF retries < maxRetries
         THEN [redo |-> TRUE, retries |-> retries + 1,
               sleep |-> <<RetryDelay(retries + 1)>>, inc |-> <<>>]
         ELSE [redo |-> FALSE, retries |-> retries,
               sleep |-> <<>>, inc |-> <<"uploadErrors">>]
    ELSE IF a.status = 503
    THEN [redo |-> TRUE, retries |-> retries,
          sleep |-> <<RetryTime(a.retryAfter)>>, inc |-> <<>>]
    ELSE IF a.bodyErr
    THEN [redo |-> FALSE, retries |-> retries, sleep |-> <<>>, inc |-> <<"uploadErrors">>]
    ELSE IF a.status # 200
    THEN [redo |-> FALSE, retries |-> retries, sleep |-> <<>>, inc |-> <<"uploadErrors">>]
    ELSE [redo |-> FALSE, retries |-> retries, sleep |-> <<>>, inc |-> <<"uploadedFiles">>]

\* where the redo loop of StartWorkers resumes the file
RedoFrom == "call"

\* a variant of the redo in which the worker sends the file back on
\* filesToUpload, where an idle worker (or this one) receives it
PostRequeueing(w) ==
    /\ pc[w] = "post"
    /\ \E a \in Answers :
          /\ CleanOK(a) \/ budget > 0
          /\ budget' = IF CleanOK(a) THEN budget ELSE budget - 1
          /\ LET e == info[w].file
                 c == Classify(a, info[w].retries)
                 h == [Noted(hist, e, c.inc) EXCEPT
                          ![e].reqs = Append(@, getFileContentAsFormData(e)),
                          ![e].pos = Append(@, CursorAfterContentFilter(e)),
                          ![e].resp = Append(@, AnswerName(a)),
                          ![e].hdrs = IF AnswerName(a) = "503"
                                      THEN Append(@, a.retryAfter) ELSE @,
                          ![e].sleeps = @ \o c.sleep]
                 idle == {v \in Workers : pc[v] = "idle"}
                 v == IF idle = {} THEN w ELSE CHOOSE x \in idle : TRUE
             IN /\ Statistics' = AddAll(Statistics, c.inc)
                /\ IF c.redo
                   THEN /\ hist' = [h EXCEPT ![e].queued = @ + 1,
                                             ![e].received = @ + 1]
                        /\ info' = [[info EXCEPT ![w] = [file |-> 0, retries |-> 0]]
                                       EXCEPT ![v] = [file |-> e, retries |-> c.retries]]
                        /\ pc' = [[pc EXCEPT ![w] = "idle"] EXCEPT ![v] = RedoFrom]
                   ELSE /\ hist' = [h EXCEPT ![e].done = TRUE]
                        /\ Finished(w)
    /\ UNCHANGED <<cfg, now, walker, phase, cacheSize, ref, wake, maps,
                   fileHashCache, fileHashCacheCount, lastScanTime>>

\* http.Post and the classification of its answer, the sleep included
Post(w) ==
    /\ pc[w] = "post"
    /\ \E a \in Answers :
          /\ CleanOK(a) \/ budget > 0
          /\ budget' = IF CleanOK(a) THEN budget ELSE budget - 1
          /\ LET e == info[w].file
                 c == Classify(a, info[w].retries)
                 h == [Noted(hist, e, c.inc) EXCEPT
                          ![e].reqs = Append(@, getFileContentAsFormData(e)),
                          ![e].pos = Append(@, CursorAfterContentFilter(e)),
                          ![e].resp = Append(@, AnswerName(a)),
                          ![e].hdrs = IF AnswerName(a) = "503"
                                      THEN Append(@, a.retryAfter) ELSE @,
                          ![e].sleeps = @ \o c.sleep]
             IN /\ Statistics' = AddAll(Statistics, c.inc)
                /\ IF c.redo
                   THEN /\ hist' = h
                        /\ info' = [info EXCEPT ![w].retries = c.retries]
                        /\ pc' = [pc EXCEPT ![w] = RedoFrom]
                   ELSE /\ hist' = [h EXCEPT ![e].done = TRUE]
                        /\ Finished(w)
    /\ UNCHANGED <<cfg, now, walker, phase, cacheSize, ref, wake, maps,
                   fileHashCache, fileHashCacheCount, lastScanTime>>

\* ------------------------------------------------------------ specification
Next ==
    \/ StartRoot
    \/ Visit
    \/ Close
    \/ Joined
    \/ Tick
    \/ \E w \in Workers : Receive(w)
    \/ \E w \in Workers : Exit(w)
    \/ \E w \in Workers : Call(w)
    \/ \E w \in Workers : Store(w)
    \/ \E w \in Workers : Count(w)
    \/ \E w \in Workers : Cas(w)
    \/ \E w \in Workers : Swap(w)
    \/ \E w \in Workers : Throttle(w)
    \/ \E w \in Workers : Wake(w)
    \/ \E w \in Workers : Post(w)

Spec == Init /\ [][Next]_vars

\* The goroutines of Collect, StartWorkers and Stop under the Go scheduler:
\* a run does not halt while one of its goroutines can take a step.
FairSpec == Spec /\ WF_vars(Next)

\* ------------------------------------------------------------------- claims
Files == {e \in Ids : ~Entries[e].dir}

\* how often counter c was incremented on behalf of entry e
Occ(e, c) == Cardinality({i \in 1..Len(hist[e].cnt) : hist[e].cnt[i] = c})

Stat(c) == Statistics[c]

\* every answer entry e has had so far is of kind k
AllAnswers(e, k) == \A i \in 1..Len(hist[e].resp) : hist[e].resp[i] = k

\* C1 (as claimed): after Stop() returns, uploadedFiles + every skip-reason
\* counter (excluded-by-glob and pruned-directory included) + uploadErrors +
\* fileErrors = filesDiscovered.
C1_AllReasonsSumToDiscovered ==
    phase = "stopped" =>
        Stat("uploadedFiles") + Stat("skippedTooBig") + Stat("skippedTooOld")
        + Stat("skippedWrongType") + Stat("skippedIrregular")
        + Stat("skippedDuplicate") + Stat("skippedExcluded")
        + Stat("skippedDirectories") + Stat("uploadErrors") + Stat("fileErrors")
        = Stat("filesDiscovered")

\* C1 (amended): after Stop() returns, uploadedFiles + too-big + too-old +
\* wrong-type + irregular + duplicate + uploadErrors + fileErrors =
\* filesDiscovered; entries excluded by a glob are counted in their own two
\* counters and never in filesDiscovered.
C1_OutcomesSumToDiscovered ==
    phase = "stopped" =>
        Stat("uploadedFiles") + Stat("skippedTooBig") + Stat("skippedTooOld")
        + Stat("skippedWrongType") + Stat("skippedIrregular")
        + Stat("skippedDuplicate") + Stat("uploadErrors") + Stat("fileErrors")
        = Stat("filesDiscovered")

\* Stop() has returned after a two-worker run that excluded entries by glob,
\* uploaded a file and had an upload fail.
C1_Witness ==
    /\ phase = "stopped"
    /\ cfg.Threads = 2
    /\ Stat("skippedExcluded") > 0
    /\ Stat("skippedDirectories") > 0
    /\ Stat("uploadedFiles") > 0
    /\ Stat("uploadErrors") > 0

\* the files a worker has received and not yet brought to a terminal state
InFlight == {e \in Ids : hist[e].received > 0 /\ ~hist[e].done}

\* C2: in every reachable state at most Threads files are in flight
\* (received from the queue and not yet terminal, retries included).
C2_InFlightAtMostThreads == Cardinality(InFlight) <= cfg.Threads

\* Both workers hold a file, one of them in a retry, while the walker is
\* blocked sending the next candidate.
C2_Witness ==
    /\ cfg.Threads = 2
    /\ Cardinality(InFlight) = 2
    /\ \E e \in InFlight : Len(hist[e].sleeps) > 0
    /\ walker.pc = "send"

\* C3 (as claimed): while every POST of a file fails at transport level the
\* file is POSTed at most 3 times; uploadErrors is incremented for it exactly
\* once when the 3rd POST has failed, and that ends its pipeline.
C3_ThreeAttemptsThenError ==
    \A e \in Files :
        AllAnswers(e, "err") =>
            /\ Len(hist[e].resp) <= 3
            /\ Occ(e, "uploadErrors") = (IF Len(hist[e].resp) = 3 THEN 1 ELSE 0)
            /\ (Len(hist[e].resp) = 3 => hist[e].done)

\* C3 (amended): while every POST of a file fails at transport level the
\* file is POSTed at most 4 times (the first attempt and maxRetries = 3
\* retries); uploadErrors is incremented for it exactly once, exactly when
\* the 4th POST has failed, and that ends its pipeline (no further attempt).
C3_FourAttemptsThenError ==
    \A e \in Files :
        AllAnswers(e, "err") =>
            /\ Len(hist[e].resp) <= 4
            /\ Occ(e, "uploadErrors") = (IF Len(hist[e].resp) = 4 THEN 1 ELSE 0)
            /\ (Len(hist[e].resp) = 4 => hist[e].done)
            /\ (hist[e].done /\ Occ(e, "uploadErrors") = 1 => Len(hist[e].resp) = 4)

\* a file has ended as upload-error after four failed POSTs
C3_Witness ==
    \E e \in Files :
        /\ hist[e].resp = <<"err", "err", "err", "err">>
        /\ hist[e].sleeps = <<8, 16, 32>>
        /\ hist[e].cnt = <<"filesDiscovered", "uploadErrors">>
        /\ hist[e].done
        /\ \A w \in Workers : info[w].file # e

\* C4: a file that passed the filters on its first attempt, whose POSTs are
\* answered transport error, transport error, 200, makes its worker sleep
\* exactly baseDelay*2 and then baseDelay*4 and ends counted once in
\* uploadedFiles and not in uploadErrors -- whatever its size.
C4_TwoBackoffsThenUploaded ==
    \A e \in Files :
        (/\ hist[e].passed
         /\ hist[e].done
         /\ Len(hist[e].resp) > 0
         /\ IsPrefix(hist[e].resp, <<"err", "err", "200">>)) =>
            /\ hist[e].resp = <<"err", "err", "200">>
            /\ hist[e].sleeps = <<baseRetryDelay * 2, baseRetryDelay * 4>>
            /\ Occ(e, "uploadedFiles") = 1
            /\ Occ(e, "uploadErrors") = 0

\* the cooldown the claim names for a Retry-After header value
C5_Cooldown(h) == IF h = <<"2">> THEN 2 ELSE 30

\* C5: a file that passed the filters and is answered 503 ... 503, 200 makes
\* its worker sleep after each 503 for the seconds of Retry-After (30 when
\* missing or not an integer) and ends with exactly one uploadedFiles
\* increment.
C5_PacedBy503ThenUploaded ==
    \A e \in Files :
        (/\ hist[e].passed
         /\ hist[e].done
         /\ Len(hist[e].resp) > 0
         /\ \A i \in 1..(Len(hist[e].resp) - 1) : hist[e].resp[i] = "503"
         /\ hist[e].resp[Len(hist[e].resp)] \in {"503", "200"}) =>
            /\ hist[e].resp[Len(hist[e].resp)] = "200"
            /\ Occ(e, "uploadedFiles") = 1
            /\ hist[e].sleeps = [i \in 1..Len(hist[e].hdrs) |-> C5_Cooldown(hist[e].hdrs[i])]

\* C6: a file that has been answered only 503s has not consumed any retry,
\* has not incremented uploadErrors and is not in a terminal state.
C6_Only503NeverTerminal ==
    \A e \in Files :
        (Len(hist[e].resp) > 0 /\ AllAnswers(e, "503")) =>
            /\ Occ(e, "uploadErrors") = 0
            /\ ~hist[e].done
            /\ \E w \in Workers : info[w].file = e /\ info[w].retries = 0

\* two different files with the same bytes, both hashed, both processed
SameContentPairs ==
    {p \in Files \X Files :
        /\ p[1] < p[2]
        /\ Entries[p[1]].content = Entries[p[2]].content
        /\ Size(p[1]) > cfg.MinCacheFileSize
        /\ hist[p[1]].received > 0 /\ hist[p[2]].received > 0}

\* C7: of two files with identical content above MinCacheFileSize processed
\* in one run, exactly one is uploaded and exactly one counted as duplicate.
C7_OneUploadOneDuplicate ==
    phase = "stopped" =>
        \A p \in SameContentPairs :
            /\ Occ(p[1], "uploadedFiles") + Occ(p[2], "uploadedFiles") = 1
            /\ Occ(p[1], "skippedDuplicate") + Occ(p[2], "skippedDuplicate") = 1

\* C8: at the end of the run, for every file counted as duplicate a file
\* with identical content was uploaded successfully.
C8_DuplicateImpliesUploaded ==
    phase = "stopped" =>
        \A e \in Files :
            Occ(e, "skippedDuplicate") > 0 =>
                \E g \in Files :
                    /\ Entries[g].content = Entries[e].content
                    /\ Occ(g, "uploadedFiles") > 0

RECURSIVE TreeOrder(_, _)
\* the entries filepath.Walk visits in the tree of root r from entry e on
TreeOrder(r, e) ==
    IF e = 0 THEN <<>>
    ELSE <<e>> \o TreeOrder(r, NextEntry(r, e, WalkFn(e).skip))

RECURSIVE WalkOrder(_)
\* the entries Collect visits, from the i-th root on, in order
WalkOrder(i) ==
    IF i > Len(cfg.RootPaths) THEN <<>>
    ELSE TreeOrder(cfg.RootPaths[i], cfg.RootPaths[i]) \o WalkOrder(i + 1)

RECURSIVE Reference(_, _, _, _)
\* The counters of a run that handles the entries of todo one after the
\* other and in which every upload succeeds: the walk callback, then for a
\* queued file the metadata check, the open, the content filter and the
\* dedup check with its cache reset, then one upload.  It does not read
\* cfg.DryRun.
Reference(todo, cache, count, stats) ==
    IF todo = <<>> THEN stats
    ELSE LET e == Head(todo)
             r == WalkFn(e)
             s == AddAll(stats, r.inc)
             m == isFileExcludedDueToMetadata(e)
             reset == count + 1 > maxHashCacheSize
         IN IF ~r.send THEN Reference(Tail(todo), cache, count, s)
            ELSE IF m # ""
            THEN Reference(Tail(todo), cache, count, AddAll(s, <<m>>))
            ELSE IF ~Entries[e].openable
            THEN Reference(Tail(todo), cache, count, AddAll(s, <<"fileErrors">>))
            ELSE IF isWrongType(e)
            THEN Reference(Tail(todo), cache, count, AddAll(s, <<"skippedWrongType">>))
            ELSE IF ~isHashed(e)
            THEN Reference(Tail(todo), cache, count, AddAll(s, <<"uploadedFiles">>))
            ELSE IF fileHash(e) \in cache
            THEN Reference(Tail(todo), cache, count, AddAll(s, <<"skippedDuplicate">>))
            ELSE Reference(Tail(todo),
                           IF reset THEN {} ELSE cache \cup {fileHash(e)},
                           IF reset THEN 0 ELSE count + 1,
                           AddAll(s, <<"uploadedFiles">>))

\* the distinct hashes the run can insert into the dedup cache
InsertableHashes ==
    LET order == WalkOrder(1)
    IN {fileHash(order[i]) :
           i \in {j \in 1..Len(order) : WalkFn(order[j]).send /\ isHashed(order[j])}}

\* The final counters do not depend on the schedule: one worker, or too few
\* distinct hashes for the cache ever to be reset.
ScheduleIndependent ==
    cfg.Threads = 1 \/ Cardinality(InsertableHashes) <= maxHashCacheSize

\* every POST of the run so far was answered by a clean 200
AlwaysAnswered200 == \A e \in Ids : AllAnswers(e, "200")

\* C9: in dry-run mode no POST is issued and throttle() is never entered
\* (no worker is in it, no file passed its gate, the throttle clock is
\* untouched); and after Stop() the counters of a dry run and those of a
\* live run whose every POST was answered 200 both equal the counters of the
\* reference run over the same files, hence each other.
C9_DryRunMatchesLive ==
    /\ cfg.DryRun =>
          /\ \A e \in Ids : hist[e].resp = <<>> /\ hist[e].gate = 0
          /\ \A w \in Workers : pc[w] \notin {"throttle", "sleep", "post"}
          /\ lastScanTime = zeroTime
    /\ (/\ phase = "stopped"
        /\ cfg.DryRun \/ AlwaysAnswered200
        /\ ScheduleIndependent) =>
            Statistics = Reference(WalkOrder(1), {}, 0, [c \in Counters |-> 0])

\* a dry run of two workers has ended in which a rate limit is configured,
\* a file was skipped as duplicate and two files were counted as uploaded
C9_Witness ==
    /\ phase = "stopped"
    /\ cfg.DryRun
    /\ cfg.Threads = 2
    /\ cfg.MinCacheFileSize = 2
    /\ Stat("skippedDuplicate") = 1
    /\ Stat("uploadedFiles") = 2

\* the entries that match an exclude glob of the configuration
Matching == {e \in Ids : MatchingGlobs(e) # {}}

\* the entries that lie below a directory in the set dirs
Below(dirs) == {e \in Ids : \E d \in dirs : Under(e, d)}

\* C10 (as claimed): a file that matches an exclude glob or lies under a
\* matching directory is never queued, opened or uploaded; once the walk is
\* over every matching file has incremented skippedExcluded exactly once and
\* every matching directory skippedDirectories exactly once.
C10_EveryMatchCountedOnce ==
    LET matching == Matching
    IN /\ \A e \in (matching \cup Below(matching)) \cap Files :
             /\ hist[e].queued = 0
             /\ hist[e].opened = 0
             /\ Occ(e, "uploadedFiles") = 0
       /\ phase = "stopped" =>
             \A e \in matching :
                 (\E i \in 1..Len(cfg.RootPaths) : RootOf(e) = cfg.RootPaths[i]) =>
                     IF Entries[e].dir
                     THEN Occ(e, "skippedDirectories") = 1
                     ELSE Occ(e, "skippedExcluded") = 1

\* C10 (amended): a file that matches an exclude glob or lies under a
\* matching directory is never queued, received, opened, uploaded or counted
\* in filesDiscovered; an entry below a matching directory is never visited
\* and increments no counter, whether it matches a glob itself or not; a
\* matching entry that the walk visits increments only its counter
\* (skippedExcluded for a file, skippedDirectories for a directory) and that
\* exactly once, however many globs match it.
C10_VisitedMatchCountedOnce ==
    LET matching == Matching
        below == Below(matching)
    IN /\ \A e \in (matching \cup below) \cap Files :
             /\ hist[e].queued = 0
             /\ hist[e].received = 0
             /\ hist[e].opened = 0
             /\ Occ(e, "uploadedFiles") = 0
             /\ Occ(e, "filesDiscovered") = 0
       /\ \A e \in below : hist[e].visits = 0 /\ hist[e].cnt = <<>>
       /\ \A e \in matching :
             (hist[e].visits > 0 /\ ~Entries[e].err) =>
                 /\ hist[e].visits = 1
                 /\ hist[e].cnt = IF Entries[e].dir THEN <<"skippedDirectories">>
                                  ELSE <<"skippedExcluded">>

\* the walk is over; a file and a directory that each match two globs were
\* counted once, and a matching file below that directory was not visited
C10_Witness ==
    /\ phase = "stopped"
    /\ \E f \in Files :
          /\ Cardinality(MatchingGlobs(f)) = 2
          /\ hist[f].cnt = <<"skippedExcluded">>
    /\ \E d \in Ids :
          /\ Entries[d].dir
          /\ Cardinality(MatchingGlobs(d)) = 2
          /\ hist[d].cnt = <<"skippedDirectories">>
          /\ \E f \in Files :
                Under(f, d) /\ MatchingGlobs(f) # {} /\ hist[f].visits = 0

\* the filters as the specification words them
\* some timestamp of the file is at or after the threshold
NotTooOld(e) ==
    \E i \in 1..Len(Entries[e].times) : Entries[e].times[i] >= cfg.ThresholdTime

\* the size is within the configured maximum (0: no maximum)
NotTooBig(e) == cfg.MaxFileSize = 0 \/ Size(e) <= cfg.MaxFileSize

\* the leading bytes of the file are equal to some configured magic header
HeaderMatches(e) ==
    \E i \in 1..Len(cfg.MagicHeaders) : IsPrefix(cfg.MagicHeaders[i], Entries[e].content)

\* the path ends with some configured extension
ExtensionMatches(e) ==
    \E i \in 1..Len(cfg.FileExtensions) : HasSuffix(Path(e), cfg.FileExtensions[i])

\* no type filter is configured, or the extension or a magic header matches
TypeWanted(e) ==
    \/ Len(cfg.FileExtensions) = 0 /\ Len(cfg.MagicHeaders) = 0
    \/ ExtensionMatches(e)
    \/ HeaderMatches(e)

PassesEveryFilter(e) ==
    /\ MatchingGlobs(e) = {}
    /\ Entries[e].regular
    /\ NotTooOld(e)
    /\ NotTooBig(e)
    /\ TypeWanted(e)

\* C11: after a live run whose every POST was answered 200, a walked file
\* (one that can be opened and is not subject to the dedup check) was
\* received by the server exactly once if it passes every configured filter
\* and was not POSTed at all if it fails one of them.
C11_UploadedIffPassesEveryFilter ==
    (phase = "stopped" /\ ~cfg.DryRun /\ AlwaysAnswered200) =>
        \A e \in Files :
            (hist[e].visits > 0 /\ ~Entries[e].err /\ Entries[e].openable
             /\ ~isHashed(e)) =>
                hist[e].resp = (IF PassesEveryFilter(e) THEN <<"200">> ELSE <<>>)

\* the files that reached the metadata check of the walk callback
MetadataChecked ==
    {e \in Files : hist[e].visits > 0 /\ ~Entries[e].err /\ MatchingGlobs(e) = {}}

\* C12: a regular file is counted as too old if and only if every one of its
\* timestamps is strictly before ThresholdTime; one timestamp at or after the
\* threshold (equal to it included) keeps it from being skipped for age.
C12_TooOldIffEveryTimeBefore ==
    \A e \in MetadataChecked :
        Entries[e].regular =>
            (Occ(e, "skippedTooOld") > 0 <=> ~NotTooOld(e))

\* C13: a regular file that is not skipped for age is counted as too big
\* exactly once when a maximum is configured and its size exceeds it, and not
\* at all otherwise: size MaxFileSize passes, size MaxFileSize + 1 is skipped.
C13_TooBigIffAboveMaximum ==
    \A e \in MetadataChecked :
        (Entries[e].regular /\ Occ(e, "skippedTooOld") = 0) =>
            /\ Occ(e, "skippedTooBig") =
                  (IF cfg.MaxFileSize > 0 /\ Size(e) > cfg.MaxFileSize THEN 1 ELSE 0)
            /\ Occ(e, "skippedTooBig") > 0 => hist[e].queued = 0

\* a file of exactly MaxFileSize bytes got past the filters and a file of
\* MaxFileSize + 1 bytes was skipped as too big
C13_Witness ==
    /\ cfg.MaxFileSize > 0
    /\ \E a \in Files :
          /\ Size(a) = cfg.MaxFileSize
          /\ hist[a].passed
          /\ Occ(a, "skippedTooBig") = 0
    /\ \E b \in Files :
          /\ Size(b) = cfg.MaxFileSize + 1
          /\ hist[b].cnt = <<"filesDiscovered", "skippedTooBig">>

\* C14: a file that reached the content filter is counted as wrong type if
\* and only if an extension or magic-header filter is configured and the file
\* matches neither a configured extension nor a configured magic header.
C14_WrongTypeIffNeitherMatches ==
    \A e \in Files :
        hist[e].opened > 0 =>
            (Occ(e, "skippedWrongType") > 0 <=> ~TypeWanted(e))

\* C15: a file whose path ends with a configured extension is accepted by
\* the type filter and its magic header is never read.
C15_ExtensionSkipsMagicRead ==
    \A e \in Files :
        (hist[e].opened > 0 /\ ExtensionMatches(e)) =>
            /\ hist[e].magic = 0
            /\ Occ(e, "skippedWrongType") = 0

\* with magic headers configured, a file that matches an extension and
\* whose bytes also match a magic header got past the content filter
C15_Witness ==
    \E e \in Files :
        /\ Len(cfg.MagicHeaders) > 0
        /\ ExtensionMatches(e)
        /\ HeaderMatches(e)
        /\ hist[e].opened > 0
        /\ hist[e].passed

\* C16: with magic headers configured, a file that matches no extension and
\* whose leading bytes equal some configured header is accepted by the
\* content filter, whatever its length and whatever the headers' lengths.
C16_HeaderPrefixAccepted ==
    \A e \in Files :
        (/\ hist[e].opened > 0
         /\ ~ExtensionMatches(e)
         /\ HeaderMatches(e)) =>
            /\ hist[e].magic > 0
            /\ Occ(e, "skippedWrongType") = 0

\* the answers with a status that is neither 200 nor 503
RejectingAnswers == {a \in Answers : ~a.err /\ a.status # 200 /\ a.status # 503}

\* C17: an answer whose status is neither 200 nor 503 is the last answer the
\* file gets: it increments uploadErrors exactly once, ends the pipeline,
\* causes no sleep and leaves the retries counter as it was.
C17_RejectionIsTerminal ==
    /\ \A a \in RejectingAnswers, r \in 0..maxRetries :
          Classify(a, r) = [redo |-> FALSE, retries |-> r, sleep |-> <<>>,
                            inc |-> <<"uploadErrors">>]
    /\ \A e \in Files :
          \A i \in 1..Len(hist[e].resp) :
              hist[e].resp[i] = "500" =>
                  /\ i = Len(hist[e].resp)
                  /\ hist[e].done
                  /\ Occ(e, "uploadErrors") = 1
                  /\ Occ(e, "uploadedFiles") = 0
                  /\ Len(hist[e].sleeps) = Len(hist[e].resp) - 1
                  /\ \A w \in Workers : info[w].file # e

\* a file was rejected with a 500 after a transport error and a 503
C17_Witness ==
    \E e \in Files :
        /\ hist[e].resp = <<"err", "503", "500">>
        /\ hist[e].sleeps = <<8, 30>>
        /\ hist[e].done

\* C18: a file that cannot be opened is handed to uploadToThunderstorm once:
\* fileErrors is incremented exactly once, the pipeline ends, nothing is
\* POSTed and the file is not tried again.
C18_OpenFailureIsTerminal ==
    \A e \in Files :
        (~Entries[e].openable /\ hist[e].calls > 0) =>
            /\ hist[e].calls = 1
            /\ hist[e].opened = 0
            /\ hist[e].cnt = <<"filesDiscovered", "fileErrors">>
            /\ hist[e].resp = <<>>
            /\ hist[e].gate = 0
            /\ hist[e].done
            /\ \A w \in Workers : info[w].file # e

\* a live run has ended in which a file could not be opened
C18_Witness ==
    /\ phase = "stopped"
    /\ ~cfg.DryRun
    /\ \E e \in Files :
          /\ ~Entries[e].openable
          /\ hist[e].received = 1
          /\ Occ(e, "fileErrors") = 1

\* the files that ended in an upload error or a file error
Failed == {e \in Files : Occ(e, "uploadErrors") + Occ(e, "fileErrors") > 0}

\* Stop has returned after a complete traversal: every entry of the walk was
\* visited once and every candidate was received by a worker once and has
\* reached a terminal state.
RunComplete ==
    /\ phase = "stopped"
    /\ LET order == WalkOrder(1)
       IN \A i \in 1..Len(order) :
              LET e == order[i]
              IN /\ hist[e].visits = 1
                 /\ (e \in Files /\ WalkFn(e).send) =>
                        hist[e].received = 1 /\ hist[e].done

\* C19: a file's failure does not abort the run.  A worker leaves its loop
\* only once the channel is closed, a failed file is in a terminal state and
\* held by no worker, and from a failure on the run goes on to the end: the
\* walker completes the traversal and every candidate sent to the queue is
\* received and reaches a terminal state.
C19_FailureDoesNotAbort ==
    /\ [](/\ \A w \in Workers : pc[w] = "exited" => phase # "run"
          /\ \A e \in Failed :
                hist[e].done /\ \A w \in Workers : info[w].file # e)
    /\ (Failed # {}) ~> RunComplete

\* a run with one worker has ended in which a file failed and a file that
\* comes later in the same tree was uploaded
C19_Witness ==
    /\ phase = "stopped"
    /\ cfg.Threads = 1
    /\ \E e \in Failed, f \in Files :
          /\ RootOfEntry[e] = RootOfEntry[f]
          /\ e < f
          /\ hist[f].resp = <<"200">>
          /\ Occ(f, "uploadedFiles") = 1

\* the candidates that passed the walk callback's metadata check and that no
\* worker has received yet
Unowned ==
    {e \in Files : hist[e].visits > 0 /\ WalkFn(e).send /\ hist[e].received = 0}

\* the walker is at the send of the walk callback
WalkerBlocked == walker.pc = "send"

\* C20: the handoff is unbuffered.  A candidate that no worker has received
\* is the one the walker is sending, so there is at most one; while the
\* walker is at the send no further entry is visited, and it leaves the send
\* only by a worker that was idle receiving that candidate; with every
\* worker busy the walker stays where it is.
C20_UnbufferedHandoff ==
    /\ [](Unowned = IF WalkerBlocked THEN {walker.entry} ELSE {})
    /\ [][WalkerBlocked =>
            \/ /\ walker' = walker
               /\ \A e \in Ids : hist'[e].visits = hist[e].visits
            \/ \E w \in Workers :
                  /\ pc[w] = "idle"
                  /\ pc'[w] = "call"
                  /\ info'[w].file = walker.entry
                  /\ hist'[walker.entry].received = 1]_vars
    /\ [][(WalkerBlocked /\ \A w \in Workers : pc[w] # "idle") =>
            walker' = walker]_vars

\* the walker is blocked at the send while each of two workers is busy with
\* a file
C20_Witness ==
    /\ WalkerBlocked
    /\ cfg.Threads = 2
    /\ \A w \in Workers : pc[w] \notin {"idle", "exited"} /\ info[w].file # 0
    /\ hist[walker.entry].received = 0

\* the workers that hold file e
Owners(e) == {w \in Workers : info[w].file = e}

\* C21: a candidate is sent on the channel at most once and is received as
\* often as it is sent; from its receive to its terminal state exactly one
\* worker holds it, that worker does not change, and every step of its
\* pipeline (calls, reads, gate passes, POSTs, sleeps, counters) is a step
\* of that worker.
C21_OneOwnerNeverRequeued ==
    /\ [](\A e \in Files :
            /\ hist[e].queued <= 1
            /\ hist[e].received = hist[e].queued
            /\ Cardinality(Owners(e)) =
                  (IF hist[e].received = 1 /\ ~hist[e].done THEN 1 ELSE 0))
    /\ [][\A e \in Files :
            (hist[e].received = 1 /\ hist'[e] # hist[e]) =>
                \E w \in Workers :
                    /\ Owners(e) = {w}
                    /\ pc'[w] # pc[w] \/ info'[w] # info[w]
                    /\ \A v \in Workers \ {w} : pc'[v] = pc[v] /\ info'[v] = info[v]
                    /\ info'[w].file \in {e, 0}
                    /\ info'[w].file = 0 <=> hist'[e].done]_vars

\* with two workers, one is back at the start of the pipeline with a file
\* it has already POSTed while the other is idle in its receive
C21_Witness ==
    /\ cfg.Threads = 2
    /\ \E w \in Workers, v \in Workers :
          /\ pc[v] = "idle"
          /\ pc[w] = "call"
          /\ hist[info[w].file].resp # <<>>
          /\ hist[info[w].file].queued = 1

\* worker w leaves throttle() in this step and goes on to http.Post
GatePass(w) == pc[w] # "post" /\ pc'[w] = "post"

\* C22: with a rate limit, a worker gets to a POST only by a gate pass, a
\* gate pass happens at least MinUploadPeriod after the previous gate pass of
\* any worker and becomes the new c.lastScanTime, so any two gate passes are
\* at least MinUploadPeriod apart; without a rate limit no worker is ever
\* in the gate or asleep in it.
C22_GatePassesPaced ==
    /\ [][\A w \in Workers :
            (cfg.MinUploadPeriod > 0 /\ GatePass(w)) =>
                /\ pc[w] = "throttle"
                /\ now - lastScanTime >= cfg.MinUploadPeriod
                /\ lastScanTime' = now]_vars
    /\ [][lastScanTime' # lastScanTime =>
            /\ lastScanTime' - lastScanTime >= cfg.MinUploadPeriod
            /\ \E w \in Workers : GatePass(w)]_vars
    /\ [](cfg.MinUploadPeriod = 0 =>
            /\ \A w \in Workers : pc[w] \notin {"throttle", "sleep"}
            /\ lastScanTime = zeroTime)

\* with a rate limit and two workers, one worker has slept in the gate and
\* then passed it while the other is still asleep in it
C22_Witness ==
    /\ cfg.MinUploadPeriod > 0
    /\ \E w \in Workers, v \in Workers :
          /\ pc[w] = "post"
          /\ wake[w] > 0
          /\ lastScanTime >= wake[w]
          /\ pc[v] = "sleep"

\* C23: the map c.fileHashCache points to never holds more hashes than the
\* ceiling plus one insertion in flight per worker, whatever the number of
\* files processed and however the workers interleave.
C23_CacheCardinalityBounded ==
    Cardinality(maps[fileHashCache]) <= maxHashCacheSize + cfg.Threads

SkipReasons == {"skippedTooBig", "skippedWrongType", "skippedTooOld",
                "skippedIrregular", "skippedDuplicate", "skippedDirectories",
                "skippedExcluded"}

\* how many skip-reason increments were made on behalf of entry e
SkipIncrements(e) ==
    Cardinality({i \in 1..Len(hist[e].cnt) : hist[e].cnt[i] \in SkipReasons})

\* entry e was excluded from upload: a directory the walk did not descend
\* into, a file the walk callback did not send, or a file whose pipeline
\* ended without an upload and without an error
Excluded(e) ==
    /\ hist[e].visits > 0
    /\ ~Entries[e].err
    /\ IF Entries[e].dir THEN WalkFn(e).skip
       ELSE \/ ~WalkFn(e).send
            \/ /\ hist[e].done
               /\ Occ(e, "uploadedFiles") + Occ(e, "uploadErrors")
                    + Occ(e, "fileErrors") = 0

\* C24: every excluded unit (a file skipped by a glob or a filter, a
\* directory pruned by a glob or by its filesystem type) has incremented
\* exactly one skip-reason counter, exactly once.
C24_ExcludedCountedOnce ==
    \A e \in Ids : Excluded(e) => SkipIncrements(e) = 1

\* C25: Stop returns.  Every run reaches the state in which Stop has
\* returned; after close(c.filesToUpload) no worker receives another
\* candidate, a worker exits only from its receive, and when Stop has
\* returned every worker has exited and every candidate that was received
\* has reached a terminal state.
C25_StopReturns ==
    /\ <>(phase = "stopped")
    /\ (phase = "closed") ~> (phase = "stopped")
    /\ [][phase = "closed" =>
            /\ \A e \in Files : hist'[e].received = hist[e].received
            /\ \A w \in Workers :
                  (pc[w] # "exited" /\ pc'[w] = "exited") =>
                      pc[w] = "idle" /\ info[w].file = 0]_vars
    /\ [](phase = "stopped" =>
            /\ \A w \in Workers : pc[w] = "exited" /\ info[w].file = 0
            /\ \A e \in Files : hist[e].received > 0 => hist[e].done)

\* the channel is closed, one worker has exited and the other is in the
\* redo loop of a file that was answered 503
C25_Witness ==
    /\ phase = "closed"
    /\ \E w \in Workers, v \in Workers :
          /\ pc[v] = "exited"
          /\ pc[w] = "call"
          /\ info[w].file # 0
          /\ \E i \in 1..Len(hist[info[w].file].resp) :
                hist[info[w].file].resp[i] = "503"

\* the positions in RootPaths whose collectPath has returned
RootsWalked == {i \in 1..Len(cfg.RootPaths) : i < walker.root}

\* C26: the roots are traversed once each, in configuration order, whether
\* or not an earlier root could be walked, and a root that cannot be walked
\* has its failure logged ("Could not walk path") when its collectPath
\* returns.
C26_UnwalkableRootLoggedOthersWalked ==
    /\ \A i \in 1..Len(cfg.RootPaths) :
          hist[cfg.RootPaths[i]].visits =
              (IF i \in RootsWalked THEN 1
               ELSE IF i > walker.root THEN 0
               ELSE hist[cfg.RootPaths[i]].visits)
    /\ \A i \in 1..Len(cfg.RootPaths) : hist[cfg.RootPaths[i]].visits <= 1
    /\ \A i \in RootsWalked :
          LET r == cfg.RootPaths[i]
              log == collectPathLog(r)
          IN Entries[r].err =>
                \E k \in 1..Len(log) : log[k] = "Could not walk path"

Uploads(e) ==
    Cardinality({i \in 1..Len(hist[e].resp) : hist[e].resp[i] = "200"})

\* C28 (as claimed): after a live run in which every POST was answered 200
\* and the cache was never reset, of two files with the same content whose
\* size is at least MinCacheFileSize (equal to it included) exactly one was
\* uploaded and the other was counted as duplicate.
C28_AtLeastMinSizeUploadedOnce ==
    (phase = "stopped" /\ ~cfg.DryRun /\ AlwaysAnswered200 /\ Len(maps) = 1) =>
        \A e \in Files, f \in Files :
            (/\ e < f
             /\ Entries[e].content = Entries[f].content
             /\ Size(e) >= cfg.MinCacheFileSize
             /\ hist[e].received > 0
             /\ hist[f].received > 0) =>
                /\ Uploads(e) + Uploads(f) = 1
                /\ Occ(e, "skippedDuplicate") + Occ(f, "skippedDuplicate") = 1

\* C29: a file whose POSTs were never answered by a transport error, 503
\* answers included, goes through the metadata check, the open and the
\* magic-header read only once: after a 503 the worker resumes at the send.
C29_ResumeAtSendAfter503 ==
    \A e \in Files :
        (\A i \in 1..Len(hist[e].resp) : hist[e].resp[i] # "err") =>
            /\ hist[e].calls <= 1
            /\ hist[e].opened <= 1
            /\ hist[e].magic <= 1

\* the transport error as an answer
TransportError == CHOOSE a \in Answers : a.err

\* C30: on a transport error with retries = r < 3 the retry count becomes
\* r + 1, the worker sleeps baseRetryDelay * 2^(r+1) (8 s, 16 s, 32 s) and
\* uploadToThunderstorm is run again from its start; with retries = 3 the
\* file ends as upload error without a sleep.  For a file all of whose
\* POSTs failed so: the sleeps are 8, 16, 32 in this order, its worker
\* holds the number of failures as retries, and every POST had its own call
\* of the pipeline with its own open, magic-header read and gate entry.
C30_BackoffThenWholePipeline ==
    /\ \A r \in 0..(maxRetries - 1) :
          Classify(TransportError, r) =
              [redo |-> TRUE, retries |-> r + 1,
               sleep |-> <<baseRetryDelay * Pow2(r + 1)>>, inc |-> <<>>]
    /\ <<Classify(TransportError, 0).sleep[1], Classify(TransportError, 1).sleep[1],
         Classify(TransportError, 2).sleep[1]>> = <<8, 16, 32>>
    /\ Classify(TransportError, maxRetries) =
          [redo |-> FALSE, retries |-> maxRetries, sleep |-> <<>>,
           inc |-> <<"uploadErrors">>]
    /\ RedoFrom = "call"
    /\ \A e \in Files :
          LET n == Len(hist[e].resp)
          IN (n > 0 /\ AllAnswers(e, "err")) =>
                /\ hist[e].sleeps = SubSeq(<<8, 16, 32>>, 1, IF n < 3 THEN n ELSE 3)
                /\ \A w \in Workers : info[w].file = e => info[w].retries = n
                /\ hist[e].calls \in {n, n + 1}
                /\ hist[e].opened = hist[e].calls
                /\ hist[e].gate \in {n, n + 1}
                /\ hist[e].gate <= hist[e].calls
                /\ hist[e].magic = (IF magicHeaderRead(e) THEN hist[e].calls ELSE 0)
                /\ hist[e].done =>
                      \/ n = maxRetries + 1 /\ Occ(e, "uploadErrors") = 1
                      \/ Occ(e, "skippedDuplicate") = 1

\* after two transport errors a worker has slept 8 s and 16 s, has run the
\* pipeline a third time and is about to POST the file a third time
C30_Witness ==
    \E w \in Workers :
        /\ pc[w] = "post"
        /\ info[w].retries = 2
        /\ hist[info[w].file].resp = <<"err", "err">>
        /\ hist[info[w].file].sleeps = <<8, 16>>
        /\ hist[info[w].file].calls = 3
        /\ hist[info[w].file].opened = 3
        /\ hist[info[w].file].gate = 3

\* the position of step s in what the walk callback ran for e, 0 if absent
StepAt(e, s) ==
    IF \E i \in 1..Len(hist[e].steps) : hist[e].steps[i] = s
    THEN CHOOSE i \in 1..Len(hist[e].steps) : hist[e].steps[i] = s
    ELSE 0

\* the entries the walk callback was called for with their os.FileInfo
Stated == {e \in Ids : hist[e].visits > 0 /\ ~Entries[e].err}

\* C31: for every visited entry the exclude-glob loop is the first thing the
\* walk callback runs; an entry that matches a glob gets nothing else (no
\* filesystem classification, no filesDiscovered, no metadata filter, no
\* send); a regular file that matches no glob increments filesDiscovered
\* exactly once, as its first counter and before the metadata filter.
C31_GlobCheckFirst ==
    \A e \in Stated :
        /\ hist[e].steps[1] = "glob"
        /\ MatchingGlobs(e) # {} =>
              /\ hist[e].steps = <<"glob">>
              /\ Occ(e, "filesDiscovered") = 0
              /\ hist[e].cnt \in {<<"skippedExcluded">>, <<"skippedDirectories">>}
              /\ hist[e].queued = 0
        /\ (MatchingGlobs(e) = {} /\ Entries[e].regular) =>
              /\ Occ(e, "filesDiscovered") = 1
              /\ hist[e].cnt[1] = "filesDiscovered"
              /\ StepAt(e, "discovered") > 0
              /\ StepAt(e, "discovered") < StepAt(e, "metadata")

\* the walk has passed a file and a directory that match an exclude glob and
\* a regular file that matches none and was sent
C31_Witness ==
    /\ \E e \in Stated : MatchingGlobs(e) # {} /\ Entries[e].dir
    /\ \E e \in Stated : MatchingGlobs(e) # {} /\ ~Entries[e].dir
    /\ \E e \in Stated :
          MatchingGlobs(e) = {} /\ Entries[e].regular /\ hist[e].received = 1

\* the metadata counters incremented on behalf of entry e, in order
MetadataSkips(e) ==
    SelectSeq(hist[e].cnt,
              LAMBDA c : c \in {"skippedIrregular", "skippedTooOld", "skippedTooBig"})

\* the size of e is above a configured maximum
AboveMaximum(e) == cfg.MaxFileSize > 0 /\ Size(e) > cfg.MaxFileSize

\* C32: the metadata filter stops at the first reason that applies, in the
\* order irregular, too old, too big: an entry increments at most one
\* metadata counter; a non-regular one increments skippedIrregular only,
\* whatever its age and size, and a regular file all of whose timestamps are
\* before the threshold increments skippedTooOld only, whatever its size.
C32_FirstReasonWins ==
    \A e \in MetadataChecked :
        /\ Len(MetadataSkips(e)) <= 1
        /\ ~Entries[e].regular => MetadataSkips(e) = <<"skippedIrregular">>
        /\ (Entries[e].regular /\ ~NotTooOld(e)) =>
              MetadataSkips(e) = <<"skippedTooOld">>
        /\ (Entries[e].regular /\ NotTooOld(e) /\ MetadataSkips(e) # <<>>
            /\ AboveMaximum(e)) =>
              MetadataSkips(e) \in {<<"skippedTooBig">>, <<"skippedTooOld">>}

\* the walk has passed a non-regular entry that is old and big, a regular
\* file that is both too old and too big, and a file that is only too big
C32_Witness ==
    /\ \E e \in MetadataChecked :
          ~Entries[e].regular /\ ~NotTooOld(e) /\ AboveMaximum(e)
    /\ \E e \in MetadataChecked :
          Entries[e].regular /\ ~NotTooOld(e) /\ AboveMaximum(e)
    /\ \E e \in MetadataChecked :
          MetadataSkips(e) = <<"skippedTooBig">>

Posted == {e \in Files : hist[e].resp # <<>>}

C34_NoSleepInsideMutex ==
    /\ [](\A w \in Workers : pc[w] = "throttle" => ENABLED Throttle(w))
    /\ [][\A w \in Workers :
            (pc[w] = "throttle" /\ pc'[w] # "throttle") =>
                /\ now' = now
                /\ \/ pc'[w] = "post" /\ lastScanTime' = now /\ wake' = wake
                   \/ /\ pc'[w] = "sleep"
                      /\ lastScanTime' = lastScanTime
                      /\ wake'[w] > now
                /\ \A v \in Workers \ {w} : pc'[v] = pc[v] /\ wake'[v] = wake[v]]_vars

\* two workers are asleep in the gate at once: the second went through the
\* critical section while the first was asleep
C34_Witness ==
    \E w \in Workers, v \in Workers :
        /\ w # v
        /\ pc[v] = "sleep"
        /\ pc[w] = "sleep"
        /\ wake[v] > now
        /\ wake[w] > now

\* a worker is in the retry loop of its file: it has slept after a transport
\* error or a 503 and the file has not reached a terminal state
Retrying(w) ==
    /\ pc[w] \notin {"idle", "exited"}
    /\ info[w].file # 0
    /\ hist[info[w].file].sleeps # <<>>

HandoffPending == walker.pc = "send" /\ phase = "run"

\* C35 as stated: one file's retries never block other files from entering
\* the pool.  While a file is in its retry loop the walker's handoff of the
\* next candidate is accepted, whatever the other workers are doing.
C35_RetriesNeverBlockHandoff ==
    (HandoffPending /\ \E w \in Workers : Retrying(w)) =>
        ENABLED (\E v \in Workers : Receive(v))

\* C35 amended: a file in its retry loop occupies its own worker only.
\* While a worker is in the retry loop of a file and another worker is idle,
\* the walker's handoff is accepted; the candidate goes to an idle worker
\* and the retrying worker keeps its file and its place.  When no worker is
\* idle (one thread, or every worker busy) the handoff waits.  In each case
\* the run goes on to the return of Stop, every handoff is a receive, and
\* every candidate received has then reached a terminal state.
C35_RetriesOccupyOneWorker ==
    /\ [](\A w \in Workers :
            (HandoffPending /\ Retrying(w)
                /\ \E v \in Workers \ {w} : pc[v] = "idle") =>
                ENABLED (\E v \in Workers : Receive(v)))
    /\ [](\A w \in Workers :
            (HandoffPending /\ Retrying(w)
                /\ \A v \in Workers : pc[v] # "idle") =>
                ~ENABLED (\E v \in Workers : Receive(v)))
    /\ [][\A e \in Files :
            hist'[e].received # hist[e].received =>
                /\ walker.pc = "send" /\ walker.entry = e
                /\ hist'[e].received = hist[e].received + 1
                /\ \E v \in Workers :
                      /\ pc[v] = "idle" /\ pc'[v] = "call"
                      /\ info'[v] = [file |-> e, retries |-> 0]
                      /\ \A w \in Workers \ {v} :
                            pc'[w] = pc[w] /\ info'[w] = info[w]]_vars
    /\ [][walker.pc = "send" /\ walker'.pc # "send" =>
            hist'[walker.entry].received = hist[walker.entry].received + 1]_vars
    /\ (HandoffPending /\ \E w \in Workers : Retrying(w)) ~> (phase = "stopped")
    /\ [](phase = "stopped" =>
            \A e \in Files : hist[e].received > 0 => hist[e].done)

\* one worker is in the retry loop of its file, another worker is idle and
\* the walker stands in the send of the next candidate
C35_Witness ==
    \E w \in Workers, v \in Workers :
        /\ w # v /\ Retrying(w) /\ pc[v] = "idle"
        /\ HandoffPending
        /\ hist[walker.entry].received = 0

\* C36: Stop reports the statistics only after the queue has been closed
\* and every worker has exited: the step to the report is taken from the
\* closed channel with all workers exited, and from then on no counter
\* changes, no worker holds a file and no candidate is handed off.
C36_ReportAfterWorkersExited ==
    /\ [][(phase # "stopped" /\ phase' = "stopped") =>
            /\ phase = "closed"
            /\ walker.pc = "wait"
            /\ \A w \in Workers : pc[w] = "exited"
            /\ Statistics' = Statistics]_vars
    /\ [][phase = "stopped" =>
            /\ Statistics' = Statistics
            /\ hist' = hist
            /\ phase' = "stopped"]_vars
    /\ [](phase = "stopped" =>
            /\ \A w \in Workers : pc[w] = "exited" /\ info[w].file = 0
            /\ \A e \in Files : hist[e].received = hist[e].queued
            /\ \A c \in Counters :
                  Statistics[c] =
                      Cardinality(UNION {{<<e, i>> : i \in
                                      {j \in DOMAIN hist[e].cnt :
                                          hist[e].cnt[j] = c}} : e \in Ids}))

\* Stop has reported a run of two workers in which files were uploaded and
\* an upload failed
C36_Witness ==
    /\ phase = "stopped"
    /\ cfg.Threads = 2
    /\ Statistics["uploadedFiles"] > 0
    /\ Statistics["uploadErrors"] > 0

\* the hashes stored so far, in whichever map
Inserted == UNION {{<<i, h>> : h \in maps[i]} : i \in DOMAIN maps}

\* the increments of fileHashCacheCount so far: one per stored hash, but for
\* the workers between their LoadOrStore and their AddInt64
Increments ==
    Cardinality(Inserted) - Cardinality({w \in Workers : pc[w] = "count"})

\* the compare-and-swaps that have succeeded so far: one per map allocated
\* and one per worker that is about to allocate
Resets ==
    (Len(maps) - 1) + Cardinality({w \in Workers : pc[w] = "swap"})

\* C37: the cache reset is single-writer per crossing of the ceiling.  A
\* compare-and-swap succeeds only on a counter above the ceiling and leaves
\* it at 0, so that every success has used up a crossing of its own (the
\* counter has to climb past the ceiling again before the next one); only
\* the worker whose compare-and-swap succeeded replaces c.fileHashCache, and
\* it replaces it once, by an empty map.
C37_ResetSingleWriter ==
    /\ [](Increments >= fileHashCacheCount + Resets * (maxHashCacheSize + 1))
    /\ [][\A w \in Workers :
            (pc[w] = "cas" /\ pc'[w] = "swap") =>
                /\ fileHashCacheCount = cacheSize[w]
                /\ fileHashCacheCount > maxHashCacheSize
                /\ fileHashCacheCount' = 0
                /\ \A v \in Workers \ {w} :
                      (pc[v] = "cas" /\ cacheSize[v] > maxHashCacheSize) =>
                          /\ pc'[v] = "cas"
                          /\ cacheSize'[v] # fileHashCacheCount']_vars
    /\ [][\A w \in Workers :
            (pc[w] = "cas" /\ pc'[w] # "cas" /\ pc'[w] # "swap") =>
                /\ fileHashCacheCount # cacheSize[w]
                /\ fileHashCacheCount' = fileHashCacheCount
                /\ fileHashCache' = fileHashCache /\ maps' = maps]_vars
    /\ [][fileHashCache' # fileHashCache =>
            /\ Cardinality({w \in Workers : pc[w] = "swap" /\ pc'[w] # "swap"}) = 1
            /\ Len(maps') = Len(maps) + 1
            /\ fileHashCache' = Len(maps')
            /\ maps'[fileHashCache'] = {}]_vars

\* two workers have crossed the ceiling together: the compare-and-swap of
\* one has succeeded and the other, still before its own, holds a count the
\* counter no longer has
C37_Witness ==
    \E w \in Workers, v \in Workers :
        /\ w # v
        /\ pc[w] = "swap" /\ pc[v] = "cas"
        /\ cacheSize[w] > maxHashCacheSize /\ cacheSize[v] > maxHashCacheSize
        /\ fileHashCacheCount = 0

\* directory d lies on a pseudo or network filesystem: its type can be read
\* and is one of the listed ones
Classified(d) ==
    /\ Entries[d].dir
    /\ ~Entries[d].statfs.err
    /\ Entries[d].statfs.type \in PseudoFilesystems \cup NetworkFilesystems

\* the walk does not descend into directory d
NotDescended(d) ==
    /\ Entries[d].dir
    /\ \/ Entries[d].err
       \/ MatchingGlobs(d) # {}
       \/ ~cfg.AllFilesystems /\ Classified(d)

\* the entries of the configured roots
Configured ==
    {e \in Ids : \E i \in 1..Len(cfg.RootPaths) : cfg.RootPaths[i] = RootOf(e)}

\* C38: a directory on a pseudo or network filesystem is pruned unless
\* AllFilesystems is set.  Nothing below such a directory is visited,
\* counted, queued or received; the directory itself is pruned without a
\* counter.  The classification runs for directories only and never when
\* AllFilesystems is set, and a directory whose filesystem type cannot be
\* read is descended into: when the run is over the entries visited are
\* exactly those not below a directory the walk does not descend into.
C38_PseudoAndNetworkPruned ==
    /\ \A d \in Ids :
          (Classified(d) /\ ~cfg.AllFilesystems) =>
              /\ hist[d].cnt = <<>>
              /\ \A e \in Ids : Under(e, d) => hist[e] = NoHist
    /\ \A e \in Ids :
          /\ StepAt(e, "filesystem") # 0 =>
                Entries[e].dir /\ ~cfg.AllFilesystems
          /\ (hist[e].visits > 0 /\ ~Entries[e].dir /\ ~Entries[e].err
                 /\ MatchingGlobs(e) = {}) =>
                Occ(e, "filesDiscovered") = 1
    /\ phase = "stopped" =>
          \A e \in Configured :
              hist[e].visits =
                  IF \E d \in Ids : NotDescended(d) /\ Under(e, d) THEN 0 ELSE 1

\* the walk is over: a directory on a pseudo or network filesystem was
\* visited and the file in it was not, and the file in a directory whose
\* filesystem type cannot be read was discovered
C38_Witness ==
    /\ walker.pc = "collected"
    /\ ~cfg.AllFilesystems
    /\ \E d \in Ids, e \in Files :
          /\ Classified(d) /\ Entries[d].statfs.type \in PseudoFilesystems
          /\ hist[d].visits = 1 /\ Under(e, d) /\ hist[e] = NoHist
    /\ \E d \in Ids, e \in Files :
          /\ Classified(d) /\ Entries[d].statfs.type \in NetworkFilesystems
          /\ hist[d].visits = 1 /\ Under(e, d) /\ hist[e] = NoHist
    /\ \E d \in Ids, e \in Files :
          /\ Entries[d].dir /\ Entries[d].statfs.err
          /\ hist[d].visits = 1 /\ Under(e, d)
          /\ Occ(e, "filesDiscovered") = 1

\* C39: a file counted as duplicate is one whose content a different
\* candidate brought to the dedup check before it; the file's own earlier
\* attempt (before a transport-error redo or a 503 redo) never makes it a
\* duplicate of itself, so a file that was POSTed is never a duplicate.
C39_NeverDuplicateOfItself ==
    \A e \in Files :
        Occ(e, "skippedDuplicate") > 0 =>
            /\ hist[e].resp = <<>>
            /\ \E g \in Files \ {e} :
                  /\ Entries[g].content = Entries[e].content
                  /\ isHashed(g)
                  /\ hist[g].opened > 0

\* no worker is between its LoadOrStore and the end of its dedup check
NoInsertInFlight == \A w \in Workers : pc[w] \notin {"count", "cas", "swap"}

\* C40: whenever no worker is between its cache insert and the end of its
\* dedup check, fileHashCacheCount is the number of hashes the map
\* c.fileHashCache points to holds, resets by other workers included.
C40_CounterIsCacheSize ==
    NoInsertInFlight =>
        fileHashCacheCount = Cardinality(maps[fileHashCache])
====
